---- MODULE Spec2Model ----
(***************************************************************************)
(* Life Wallpaper: the time-to-pixel pipeline.                             *)
(*                                                                         *)
(*   temporal derivation   getFullMonthsLived, getCurrentMonthProgress     *)
(*   grid layout engine    computeGridLayout                               *)
(*   position mapper       getCellPosition                                 *)
(*   cell classifier       getCellState                                    *)
(*   render configuration  buildRenderConfig, resolveTheme                 *)
(*   draw engine           drawSquareCell, drawCircleCell, drawHeartCell   *)
(*   render loop           renderLifeTimeline                              *)
(*                                                                         *)
(* JavaScript numbers are modelled as exact signed rationals extended with *)
(* NaN, +Infinity, -Infinity and a signed zero, so that a division by zero *)
(* or a square root of a negative number yields what the engine yields.    *)
(* Binary rounding of IEEE-754 doubles is not modelled.                    *)
(*                                                                         *)
(* Time is counted in half days since 2000-01-01T00:00Z; the host's time   *)
(* zone is an offset in half days (no daylight saving).                    *)
(***************************************************************************)
EXTENDS Integers, Sequences, FiniteSets, TLC

VARIABLES
    \* ---- host environment
    now,            \* the clock read by `new Date()`, half days since the epoch
    tz,             \* local time minus UTC, in half days
    \* ---- temporal derivation
    dob,            \* the birth-date string handed to the temporal functions
    sampled,        \* TRUE when monthsLived/monthProgress were derived at `now`
    monthsLived,    \* last value returned by getFullMonthsLived(dob)
    monthProgress,  \* last value returned by getCurrentMonthProgress(dob)
    \* ---- grid pipeline
    renderConfig,   \* [totalMonths, fullMonthsLived]
    width,          \* viewport width handed to computeGridLayout
    height,         \* viewport height handed to computeGridLayout
    layoutConfig,   \* last value returned by computeGridLayout
    cell,           \* <<>>, or <<[index, position, state]>>: the cell mapped last
    \* ---- render configuration builder
    userConfig,     \* [dob, expectancy, message, theme, shape]
    prefersDark,    \* matchMedia('(prefers-color-scheme: dark)').matches
    \* ---- canvas
    ctx,            \* the 2D context: saved-state stack, clip, fillStyle, strokeStyle
    ops,            \* canvas calls issued by the running pass or the last draw call
    dispatched,     \* draw routine calls made by the running (or last) pass
    loopIndex,      \* -1 when no pass runs, else the index the loop draws next
    \* ---- React components and the persistence layer
    app,            \* the App component: mount state, pending work, listeners, props
    storage,        \* the localStorage item 'life_timeline_config'
    drawer,         \* the SettingsOverlay component: isOpen, formData
    surface,        \* the LifeCanvas component: its effect, resize listeners, repaints
    timer           \* the CountdownTimer component: its effect, frame chain, labels

envVars  == <<now, tz>>
timeVars == <<dob, sampled, monthsLived, monthProgress>>
gridVars == <<renderConfig, width, height, layoutConfig, cell>>
buildVars == <<userConfig, prefersDark>>
paintVars == <<ctx, ops, dispatched, loopIndex>>
uiVars   == <<app, storage, drawer, surface, timer>>
vars     == <<now, tz, dob, sampled, monthsLived, monthProgress,
              renderConfig, width, height, layoutConfig, cell,
              userConfig, prefersDark, ctx, ops, dispatched, loopIndex,
              app, storage, drawer, surface, timer>>

(***************************************************************************)
(* JavaScript number arithmetic                                            *)
(***************************************************************************)
(***************************************************************************)
(* Bounds                                                                  *)
(***************************************************************************)
MaxTicks    == 900   \* the clock runs over this many half days from the epoch
MaxTotal    == 5     \* largest totalMonths handed to the grid pipeline
MaxLived    == 6     \* largest fullMonthsLived handed to the classifier
MaxSide     == 3     \* largest viewport width and height
IndexMargin == 2     \* indices mapped lie in -IndexMargin .. MaxTotal + IndexMargin
MaxCells    == 3     \* largest totalMonths of a painted timeline

\* Bind(v, F) is F(v) with v evaluated once: the model checker evaluates an
\* operator's argument anew at each use, a bound variable only once.
Bind(v, F(_)) == CHOOSE r \in {F(x) : x \in {v}} : TRUE

RECURSIVE Gcd(_, _)
Gcd(a, b) == IF b = 0 THEN a ELSE Gcd(b, a % b)

Abs(i) == IF i < 0 THEN -i ELSE i
Max(a, b) == IF a >= b THEN a ELSE b

\* A number is [k, s, n, d]: kind, sign (1 or -1), magnitude n/d in lowest terms.
NaN == [k |-> "nan", s |-> 1, n |-> 0, d |-> 1]
Infinity(sign) == [k |-> "inf", s |-> sign, n |-> 1, d |-> 1]

Fin(sign, num, den) ==
    LET g == Gcd(num, den)
    IN  [k |-> "fin", s |-> sign, n |-> num \div g, d |-> den \div g]

Num(i) == Fin(IF i < 0 THEN -1 ELSE 1, Abs(i), 1)

IsNaN(a)    == a.k = "nan"
IsFinite(a) == a.k = "fin"
IsZero(a)   == a.k = "fin" /\ a.n = 0

\* Signed numerator of a finite number (the sign of a zero is lost).
SNum(a) == a.s * a.n

JNeg(a) == IF IsNaN(a) THEN NaN ELSE [a EXCEPT !.s = -a.s]

JMul(a, b) ==
    IF IsNaN(a) \/ IsNaN(b) THEN NaN
    ELSE IF a.k = "inf" \/ b.k = "inf"
         THEN IF IsZero(a) \/ IsZero(b) THEN NaN ELSE Infinity(a.s * b.s)
         ELSE Fin(a.s * b.s, a.n * b.n, a.d * b.d)

JDiv(a, b) ==
    IF IsNaN(a) \/ IsNaN(b) THEN NaN
    ELSE IF a.k = "inf"
         THEN IF b.k = "inf" THEN NaN ELSE Infinity(a.s * b.s)
         ELSE IF b.k = "inf" THEN Fin(a.s * b.s, 0, 1)
         ELSE IF b.n = 0
              THEN IF a.n = 0 THEN NaN ELSE Infinity(a.s * b.s)
              ELSE Fin(a.s * b.s, a.n * b.d, a.d * b.n)

JAdd(a, b) ==
    IF IsNaN(a) \/ IsNaN(b) THEN NaN
    ELSE IF a.k = "inf"
         THEN IF b.k = "inf" /\ b.s # a.s THEN NaN ELSE a
         ELSE IF b.k = "inf" THEN b
         ELSE LET t == SNum(a) * b.d + SNum(b) * a.d
              IN  IF t = 0
                  THEN Fin(IF a.n = 0 /\ b.n = 0 /\ a.s = -1 /\ b.s = -1 THEN -1 ELSE 1, 0, 1)
                  ELSE Fin(IF t < 0 THEN -1 ELSE 1, Abs(t), a.d * b.d)

JSub(a, b) == JAdd(a, JNeg(b))

\* a < b as the engine decides it (FALSE whenever an operand is NaN; -0 = +0).
JLt(a, b) ==
    /\ ~IsNaN(a)
    /\ ~IsNaN(b)
    /\ IF a.k = "inf" THEN a.s = -1 /\ ~(b.k = "inf" /\ b.s = -1)
       ELSE IF b.k = "inf" THEN b.s = 1
       ELSE SNum(a) * b.d < SNum(b) * a.d

JEq(a, b) == ~IsNaN(a) /\ ~IsNaN(b) /\ ~JLt(a, b) /\ ~JLt(b, a)
JLe(a, b) == JLt(a, b) \/ JEq(a, b)

\* Math.min / Math.max: NaN if an operand is NaN, and -0 is smaller than +0.
MathMin(a, b) ==
    IF IsNaN(a) \/ IsNaN(b) THEN NaN
    ELSE IF JLt(a, b) THEN a
    ELSE IF JLt(b, a) THEN b
    ELSE IF a.s = -1 THEN a ELSE b

MathMax(a, b) ==
    IF IsNaN(a) \/ IsNaN(b) THEN NaN
    ELSE IF JLt(a, b) THEN b
    ELSE IF JLt(b, a) THEN a
    ELSE IF a.s = 1 THEN a ELSE b

\* Math.floor / Math.ceil keep NaN, the infinities and the sign of a zero result.
MathFloor(a) ==
    IF ~IsFinite(a) THEN a
    ELSE IF a.s = 1 THEN Fin(1, a.n \div a.d, 1)
    ELSE Fin(-1, (a.n + a.d - 1) \div a.d, 1)

MathCeil(a) ==
    IF ~IsFinite(a) THEN a
    ELSE IF a.s = 1 THEN Fin(1, (a.n + a.d - 1) \div a.d, 1)
    ELSE Fin(-1, a.n \div a.d, 1)

\* Math.round: the nearest integer, halves upwards.
MathRound(a) == MathFloor(JAdd(a, Fin(1, 1, 2)))

\* The largest natural r with r * r <= num / den.
RECURSIVE IntSqrtFrom(_, _, _)
IntSqrtFrom(r, num, den) ==
    IF (r + 1) * (r + 1) * den <= num THEN IntSqrtFrom(r + 1, num, den) ELSE r

\* Math.floor(Math.sqrt(a)): the root is irrational in general, its floor is not.
FloorSqrt(a) ==
    IF IsNaN(a) THEN NaN
    ELSE IF IsZero(a) THEN a
    ELSE IF a.s = -1 THEN NaN
    ELSE IF a.k = "inf" THEN a
    ELSE Fin(1, IntSqrtFrom(0, a.n, a.d), 1)

\* A finite number whose value is an integer, as that integer.
IsInt(a) == IsFinite(a) /\ a.d = 1
IntOf(a) == SNum(a)

\* The remainder operator %: the result takes the sign of the dividend.
JMod(a, b) ==
    IF IsNaN(a) \/ IsNaN(b) \/ a.k = "inf" \/ IsZero(b) THEN NaN
    ELSE IF b.k = "inf" THEN a
    ELSE Fin(a.s, (a.n * b.d) % (b.n * a.d), a.d * b.d)

(***************************************************************************)
(* Grid layout engine                                                      *)
(***************************************************************************)
\* A variant that takes the aspect ratio upside down.
RowsFromInverseAspect(totalMonths, usableWidth, usableHeight) ==
    MathMax(FloorSqrt(JDiv(JMul(totalMonths, usableWidth), usableHeight)), Num(1))

\* rows = Math.max(Math.floor(Math.sqrt((totalMonths * usableHeight) / usableWidth)), 1)
GridRows(totalMonths, usableWidth, usableHeight) ==
    MathMax(FloorSqrt(JDiv(JMul(totalMonths, usableHeight), usableWidth)), Num(1))

ColumnsRoundedDown(totalMonths, rows) == MathFloor(JDiv(totalMonths, rows))

\* columns = Math.ceil(totalMonths / rows)
GridColumns(totalMonths, rows) == MathCeil(JDiv(totalMonths, rows))

\* A variant that starts the grid at the padding instead of centring it.
LayoutAtPadding(totalMonths, w, h) ==
    LET horizontalPadding == JMul(Fin(1, 1, 10), w)
        verticalPadding   == JMul(Fin(1, 1, 10), h)
        usableWidth  == JSub(w, JMul(Num(2), horizontalPadding))
        usableHeight == JSub(h, JMul(Num(2), verticalPadding))
        rows    == GridRows(totalMonths, usableWidth, usableHeight)
        columns == GridColumns(totalMonths, rows)
        cellSize == MathMin(JDiv(usableWidth, columns), JDiv(usableHeight, rows))
    IN  [rows |-> rows, columns |-> columns, cellSize |-> cellSize,
         offsetX |-> horizontalPadding, offsetY |-> verticalPadding]

\* computeGridLayout(totalMonths, width, height), arguments and fields as numbers.
ComputeGridLayout(totalMonths, w, h) ==
    LET horizontalPadding == JMul(Fin(1, 1, 10), w)
        verticalPadding   == JMul(Fin(1, 1, 10), h)
        usableWidth  == JSub(w, JMul(Num(2), horizontalPadding))
        usableHeight == JSub(h, JMul(Num(2), verticalPadding))
        rows    == GridRows(totalMonths, usableWidth, usableHeight)
        columns == GridColumns(totalMonths, rows)
        cellWidth  == JDiv(usableWidth, columns)
        cellHeight == JDiv(usableHeight, rows)
        cellSize == MathMin(cellWidth, cellHeight)
        offsetX == JDiv(JSub(w, JMul(columns, cellSize)), Num(2))
        offsetY == JDiv(JSub(h, JMul(rows, cellSize)), Num(2))
    IN  [rows |-> rows, columns |-> columns, cellSize |-> cellSize,
         offsetX |-> offsetX, offsetY |-> offsetY]

(***************************************************************************)
(* Position mapper                                                         *)
(***************************************************************************)
\* The guard of the off-screen branch: index < 0 || index >= columns * rows.
IndexOutOfGrid(idx, layout) ==
    JLt(idx, Num(0)) \/ JLe(JMul(layout.columns, layout.rows), idx)

CellColumn(idx, layout) == JMod(idx, layout.columns)
CellRow(idx, layout)    == MathFloor(JDiv(idx, layout.columns))

CellPositionRowMajorByRows(idx, layout) ==
    IF IndexOutOfGrid(idx, layout)
    THEN [x |-> JNeg(layout.cellSize), y |-> JNeg(layout.cellSize)]
    ELSE [x |-> JAdd(layout.offsetX, JMul(JMod(idx, layout.rows), layout.cellSize)),
          y |-> JAdd(layout.offsetY,
                     JMul(MathFloor(JDiv(idx, layout.rows)), layout.cellSize))]

\* getCellPosition(index, layoutConfig)
GetCellPosition(idx, layout) ==
    IF IndexOutOfGrid(idx, layout)
    THEN [x |-> JNeg(layout.cellSize), y |-> JNeg(layout.cellSize)]
    ELSE [x |-> JAdd(layout.offsetX, JMul(CellColumn(idx, layout), layout.cellSize)),
          y |-> JAdd(layout.offsetY, JMul(CellRow(idx, layout), layout.cellSize))]

(***************************************************************************)
(* Cell classifier                                                         *)
(***************************************************************************)
CellStatePresentIsPast(i, cfg) ==
    IF i >= cfg.totalMonths \/ i < 0 THEN "empty"
    ELSE IF i <= cfg.fullMonthsLived THEN "past"
    ELSE "future"

\* getCellState(index, renderConfig)
GetCellState(i, cfg) ==
    IF i >= cfg.totalMonths \/ i < 0 THEN "empty"
    ELSE IF i < cfg.fullMonthsLived THEN "past"
    ELSE IF i = cfg.fullMonthsLived THEN "present"
    ELSE "future"

CellStates == {"past", "present", "future", "empty"}

(***************************************************************************)
(* Date objects                                                            *)
(*                                                                         *)
(* A Date is [nan, t]: t is its time value in half days since              *)
(* 2000-01-01T00:00Z, and nan says that the time value is NaN (an invalid  *)
(* date, whose t is unused).  The getters and setMonth work in local time, *)
(* the parse of a date-only string in UTC.                                 *)
(***************************************************************************)
InvalidDate == [nan |-> TRUE, t |-> 0]
DateAt(time) == [nan |-> FALSE, t |-> time]
GetTime(date) == date.t

IsLeapYear(y) == (y % 4 = 0 /\ y % 100 # 0) \/ y % 400 = 0
DaysInYear(y) == IF IsLeapYear(y) THEN 366 ELSE 365

DaysInMonth(y, m) ==
    IF m = 1 THEN (IF IsLeapYear(y) THEN 29 ELSE 28)
    ELSE IF m \in {3, 5, 8, 10} THEN 30
    ELSE 31

\* Leap years before year y, counted from the year 1.
LeapYearsBefore(y) == ((y - 1) \div 4) - ((y - 1) \div 100) + ((y - 1) \div 400)

\* Day number of January 1st of year y (day 0 is 2000-01-01).
DayFromYear(y) == 365 * (y - 2000) + LeapYearsBefore(y) - LeapYearsBefore(2000)

\* Days from January 1st to the first day of month m (0-based) of year y.
MonthStarts == <<0, 31, 59, 90, 120, 151, 181, 212, 243, 273, 304, 334>>
DaysBeforeMonth(y, m) == MonthStarts[m + 1] + (IF m >= 2 /\ IsLeapYear(y) THEN 1 ELSE 0)

\* MakeDay(year, month, date): month may lie outside 0..11 and date outside the
\* month; both overflow into the following (or preceding) months.
MakeDay(y, m, d) ==
    Bind(m, LAMBDA month :
        Bind(y + (month \div 12), LAMBDA ym :
            DayFromYear(ym) + DaysBeforeMonth(ym, month % 12) + d - 1))

RECURSIVE YearFromDayFrom(_, _)
YearFromDayFrom(y, day) ==
    IF day < DayFromYear(y) THEN YearFromDayFrom(y - 1, day)
    ELSE IF day >= DayFromYear(y + 1) THEN YearFromDayFrom(y + 1, day)
    ELSE y

YearFromDay(day) == YearFromDayFrom(2000, day)

RECURSIVE MonthFromDayFrom(_, _, _)
MonthFromDayFrom(y, m, dayInYear) ==
    IF dayInYear >= DaysBeforeMonth(y, m) + DaysInMonth(y, m)
    THEN MonthFromDayFrom(y, m + 1, dayInYear)
    ELSE m

MonthFromDay(day) ==
    LET y == YearFromDay(day) IN MonthFromDayFrom(y, 0, day - DayFromYear(y))

DateFromDay(day) ==
    LET y == YearFromDay(day)
    IN  day - DayFromYear(y) - DaysBeforeMonth(y, MonthFromDay(day)) + 1

\* The civil date of every local day the clock and the birth dates can show,
\* worked out once.
CalendarDays == (0 - 1)..(Max(MaxTicks, 732) \div 2 + 1)
CivilFromDay ==
    [day \in CalendarDays |->
        [year |-> YearFromDay(day), month |-> MonthFromDay(day), date |-> DateFromDay(day)]]

\* Local day number and local time within the day of a Date.
LocalDay(date)      == (date.t + tz) \div 2
TimeWithinDay(date) == (date.t + tz) % 2

\* The civil date of a local day: looked up, or worked out for a day that lies
\* outside the days worked out once (the fallback birth date of 1995).
CivilOf(day) ==
    IF day \in CalendarDays THEN CivilFromDay[day]
    ELSE [year |-> YearFromDay(day), month |-> MonthFromDay(day), date |-> DateFromDay(day)]

GetFullYear(date) == CivilOf(LocalDay(date)).year
GetMonth(date)    == CivilOf(LocalDay(date)).month
GetDate(date)     == CivilOf(LocalDay(date)).date

\* date.setMonth(m): the local year, day of month and time of day are kept.
SetMonth(date, m) ==
    Bind(date, LAMBDA dt :
        DateAt(MakeDay(GetFullYear(dt), m, GetDate(dt)) * 2 + TimeWithinDay(dt) - tz))

\* A birth-date string is [iso, year, month, day]: with iso it is the text
\* "YYYY-MM-DD" of those numbers, without iso it is text that is no date.
IsoString(y, m, d) == [iso |-> TRUE, year |-> y, month |-> m, day |-> d]
NotADate == [iso |-> FALSE, year |-> 0, month |-> 0, day |-> 0]

IsCalendarDate(str) ==
    /\ str.iso
    /\ str.month \in 1..12
    /\ str.day \in 1..DaysInMonth(str.year, str.month - 1)

\* new Date(str): a date-only ISO string is midnight UTC of that date.
DateParse(str) ==
    Bind(str, LAMBDA text :
        IF IsCalendarDate(text)
        THEN DateAt(MakeDay(text.year, text.month - 1, text.day) * 2)
        ELSE InvalidDate)

(***************************************************************************)
(* Temporal derivation                                                     *)
(***************************************************************************)
\* A variant that adds the borrowed month instead of taking it away.
MonthsBetweenMonthAdded(presentYear, presentMonth, presentDay, dobYear, dobMonth, dobDay) ==
    LET yearDiff  == presentYear - dobYear
        monthDiff == presentMonth - dobMonth
        monthsFromYears == yearDiff * 12
    IN  IF presentDay >= dobDay
        THEN monthsFromYears + monthDiff
        ELSE monthsFromYears + monthDiff + 1

\* The month count of getFullMonthsLived before its final clamp:
\* yearDiff * 12 + monthDiff, less one when the birth day is still ahead.
MonthsBetween(presentYear, presentMonth, presentDay, dobYear, dobMonth, dobDay) ==
    LET yearDiff  == presentYear - dobYear
        monthDiff == presentMonth - dobMonth
        monthsFromYears == yearDiff * 12
    IN  IF presentDay >= dobDay
        THEN monthsFromYears + monthDiff
        ELSE monthsFromYears + monthDiff - 1

ReturnVal(presentDate, birthDay) ==
    Bind(<<GetFullYear(presentDate), GetMonth(presentDate), GetDate(presentDate),
           GetFullYear(birthDay), GetMonth(birthDay), GetDate(birthDay)>>,
         LAMBDA p : MonthsBetween(p[1], p[2], p[3], p[4], p[5], p[6]))

FullMonthsLivedUnclamped(str) ==
    Bind(DateParse(str), LAMBDA birthDay :
        IF birthDay.nan THEN 0 ELSE ReturnVal(DateAt(now), birthDay))

\* getFullMonthsLived(dob)
GetFullMonthsLived(str) ==
    Bind(DateParse(str), LAMBDA birthDay :
        IF birthDay.nan THEN 0
        ELSE Bind(ReturnVal(DateAt(now), birthDay), LAMBDA returnVal : Max(returnVal, 0)))

\* startDate and endDate of getCurrentMonthProgress: the birth date moved on by
\* fullMonthsLived and by fullMonthsLived + 1 months with setMonth.
StartDate(str, fullMonthsLived) ==
    Bind(DateParse(str), LAMBDA d0 :
        Bind(GetMonth(d0) + fullMonthsLived, LAMBDA m : SetMonth(d0, m)))

\* A variant that moves the end on by fullMonthsLived months only.
EndDateSameMonth(str, fullMonthsLived) ==
    Bind(DateParse(str), LAMBDA d0 :
        Bind(GetMonth(d0) + fullMonthsLived, LAMBDA m : SetMonth(d0, m)))

EndDate(str, fullMonthsLived) ==
    Bind(DateParse(str), LAMBDA d0 :
        Bind(GetMonth(d0) + fullMonthsLived + 1, LAMBDA m : SetMonth(d0, m)))

\* progress = elapsed / duration, before the clamp.
Progress(str) ==
    Bind(GetFullMonthsLived(str), LAMBDA fullMonthsLived :
        Bind(GetTime(StartDate(str, fullMonthsLived)), LAMBDA start :
            Bind(GetTime(EndDate(str, fullMonthsLived)), LAMBDA end :
                LET elapsed  == GetTime(DateAt(now)) - start
                    duration == end - start
                IN  Bind(Num(elapsed), LAMBDA e :
                        Bind(Num(duration), LAMBDA d : JDiv(e, d))))))

CurrentMonthProgressUnclamped(str) ==
    IF DateParse(str).nan THEN Num(0) ELSE Progress(str)

\* getCurrentMonthProgress(dob)
GetCurrentMonthProgress(str) ==
    IF DateParse(str).nan THEN Num(0)
    ELSE Bind(Progress(str), LAMBDA progress :
            Bind(MathMax(progress, Num(0)), LAMBDA atLeast0 :
                MathMin(atLeast0, Num(1))))

(***************************************************************************)
(* Canvas 2D context                                                       *)
(***************************************************************************)
\* A colour is a hex literal or the text rgb(r,g,b) of three numbers.
HexColor(text)    == [css |-> "hex", hex |-> text, r |-> Num(0), g |-> Num(0), b |-> Num(0)]
RgbColor(r, g, b) == [css |-> "rgb", hex |-> "", r |-> r, g |-> g, b |-> b]

\* The text parses as a CSS colour: rgb(NaN,NaN,NaN) does not.
IsCssColor(color) ==
    color.css = "hex" \/ (IsFinite(color.r) /\ IsFinite(color.g) /\ IsFinite(color.b))

\* The clip region: the whole surface, or a rectangle.
NoClip == [on |-> FALSE, x |-> Num(0), y |-> Num(0), w |-> Num(0), h |-> Num(0)]
ClipRect(x, y, w, h) == [on |-> TRUE, x |-> x, y |-> y, w |-> w, h |-> h]

\* The current path: empty, or one shape given by the numbers it was traced with.
EmptyPath == [kind |-> "none", x |-> Num(0), y |-> Num(0), w |-> Num(0), h |-> Num(0)]

\* The context as getContext('2d') hands it out.
FreshContext ==
    [saved |-> <<>>, clip |-> NoClip, path |-> EmptyPath,
     fillStyle |-> HexColor("#000000"), strokeStyle |-> HexColor("#000000")]

\* One call on the context: its name, up to four numbers, and for an
\* assignment to fillStyle / strokeStyle the colour assigned.
Call(name, x, y, w, h, style) ==
    [call |-> name, x |-> x, y |-> y, w |-> w, h |-> h, style |-> style]
Plain(name)             == Call(name, Num(0), Num(0), Num(0), Num(0), HexColor(""))
Shape(name, x, y, w, h) == Call(name, x, y, w, h, HexColor(""))
Assign(name, color)     == Call(name, Num(0), Num(0), Num(0), Num(0), color)

\* The rectangle common to the clip region and the rectangle of a path.
Intersect(clip, path) ==
    IF ~clip.on THEN ClipRect(path.x, path.y, path.w, path.h)
    ELSE LET left   == MathMax(clip.x, path.x)
             top    == MathMax(clip.y, path.y)
             right  == MathMin(JAdd(clip.x, clip.w), JAdd(path.x, path.w))
             bottom == MathMin(JAdd(clip.y, clip.h), JAdd(path.y, path.h))
         IN  ClipRect(left, top, MathMax(JSub(right, left), Num(0)),
                      MathMax(JSub(bottom, top), Num(0)))

\* The context after a call.  Path calls with a NaN or infinite argument are
\* ignored, an assignment of a text that is no colour is ignored, restore()
\* on an empty stack does nothing, clip() with an empty path clips everything.
Apply(c, k) ==
    LET finite == IsFinite(k.x) /\ IsFinite(k.y) /\ IsFinite(k.w) /\ IsFinite(k.h)
        traced == [kind |-> k.call, x |-> k.x, y |-> k.y, w |-> k.w, h |-> k.h]
    IN  CASE k.call = "save" ->
                [c EXCEPT !.saved = Append(@, [clip |-> c.clip, fillStyle |-> c.fillStyle,
                                               strokeStyle |-> c.strokeStyle])]
          [] k.call = "restore" ->
                IF c.saved = <<>> THEN c
                ELSE LET top == c.saved[Len(c.saved)]
                     IN  [c EXCEPT !.saved = SubSeq(@, 1, Len(@) - 1),
                                   !.clip = top.clip,
                                   !.fillStyle = top.fillStyle,
                                   !.strokeStyle = top.strokeStyle]
          [] k.call = "beginPath" -> [c EXCEPT !.path = EmptyPath]
          [] k.call \in {"rect", "arc", "heart"} ->
                IF finite THEN [c EXCEPT !.path = traced] ELSE c
          [] k.call = "clip" ->
                IF c.path.kind = "none"
                THEN [c EXCEPT !.clip = ClipRect(Num(0), Num(0), Num(0), Num(0))]
                ELSE [c EXCEPT !.clip = Intersect(c.clip, c.path)]
          [] k.call = "fillStyle" ->
                IF IsCssColor(k.style) THEN [c EXCEPT !.fillStyle = k.style] ELSE c
          [] k.call = "strokeStyle" ->
                IF IsCssColor(k.style) THEN [c EXCEPT !.strokeStyle = k.style] ELSE c
          [] OTHER -> c

\* What a call leaves in the record of calls: the call, the shape it paints
\* (for fill() and stroke() the current path), the colour it paints with, and
\* the clip region and depth of the saved-state stack when it was made.
\* `by` numbers the draw routine call that issued it (0: the render loop itself).
Entry(c, k, by) ==
    LET usesPath == k.call \in {"fill", "stroke", "clip"}
        isFill   == k.call \in {"fill", "fillRect"}
        isStroke == k.call \in {"stroke", "strokeRect"}
    IN  [call  |-> k.call,
         kind  |-> IF usesPath THEN c.path.kind
                   ELSE IF k.call \in {"fillRect", "strokeRect", "clearRect"} THEN "rect"
                   ELSE k.call,
         x |-> IF usesPath THEN c.path.x ELSE k.x,
         y |-> IF usesPath THEN c.path.y ELSE k.y,
         w |-> IF usesPath THEN c.path.w ELSE k.w,
         h |-> IF usesPath THEN c.path.h ELSE k.h,
         style |-> IF isFill THEN c.fillStyle
                   ELSE IF isStroke THEN c.strokeStyle ELSE k.style,
         clip  |-> c.clip,
         depth |-> Len(c.saved),
         by    |-> by]

\* The context and the record after a sequence of calls.
RECURSIVE Perform(_, _, _, _)
Perform(c, record, calls, by) ==
    IF calls = <<>> THEN [ctx |-> c, ops |-> record]
    ELSE Perform(Apply(c, Head(calls)), Append(record, Entry(c, Head(calls), by)),
                 Tail(calls), by)

(***************************************************************************)
(* Canvas draw engine                                                      *)
(***************************************************************************)
LIGHT_THEME ==
    [start |-> <<34, 197, 94>>, end |-> <<239, 68, 68>>, future |-> HexColor("#D1D5DB")]
DARK_THEME ==
    [start |-> <<20, 184, 166>>, end |-> <<245, 158, 11>>, future |-> HexColor("#374151")]

\* A variant that takes the neutral colour of the light theme on both themes.
NeutralColorOfLight(theme) == LIGHT_THEME.future

\* theme === 'light' ? LIGHT_THEME.future : DARK_THEME.future
NeutralColor(theme) == IF theme = "light" THEN LIGHT_THEME.future ELSE DARK_THEME.future

\* One channel of lerpColor: Math.round(start + (end - start) * safeT)
LerpChannel(from, to, safeT) ==
    MathRound(JAdd(Num(from), JMul(Num(to - from), safeT)))

\* lerpColor(startColor, endColor, t)
LerpColor(startColor, endColor, t) ==
    LET safeT == MathMax(MathMin(t, Num(1)), Num(0))
    IN  RgbColor(LerpChannel(startColor[1], endColor[1], safeT),
                 LerpChannel(startColor[2], endColor[2], safeT),
                 LerpChannel(startColor[3], endColor[3], safeT))

\* A variant that takes the cell at fullMonthsLived for a future one.
CellColorPresentIsNeutral(index, totalMonths, fullMonthsLived, theme) ==
    IF index >= fullMonthsLived THEN NeutralColor(theme)
    ELSE LET t == MathMin(JDiv(Num(index), Num(totalMonths)), Num(1))
         IN  IF theme = "light"
             THEN LerpColor(LIGHT_THEME.start, LIGHT_THEME.end, t)
             ELSE LerpColor(DARK_THEME.start, DARK_THEME.end, t)

\* getCellColor(index, totalMonths, fullMonthsLived, theme)
GetCellColor(index, totalMonths, fullMonthsLived, theme) ==
    IF index > fullMonthsLived THEN NeutralColor(theme)
    ELSE LET t == MathMin(JDiv(Num(index), Num(totalMonths)), Num(1))
         IN  IF theme = "light"
             THEN LerpColor(LIGHT_THEME.start, LIGHT_THEME.end, t)
             ELSE LerpColor(DARK_THEME.start, DARK_THEME.end, t)

\* The padded drawable square of a cell: gap = cellSize * 0.08,
\* drawSize = cellSize - gap, drawX = position.x + gap / 2, drawY likewise.
Gap(cellSize)             == JMul(cellSize, Fin(1, 2, 25))
DrawSize(cellSize)        == JSub(cellSize, Gap(cellSize))
DrawX(position, cellSize) == JAdd(position.x, JDiv(Gap(cellSize), Num(2)))
DrawY(position, cellSize) == JAdd(position.y, JDiv(Gap(cellSize), Num(2)))

\* A variant that lets the fill width leave the drawable square.
FillWidthUnclamped(drawSize, progress) == JMul(drawSize, progress)

\* fillWidth = Math.max(Math.min(drawSize * progress, drawSize), 0)
FillWidth(drawSize, progress) ==
    MathMax(MathMin(JMul(drawSize, progress), drawSize), Num(0))

\* drawSquareCell(ctx, position, cellSize, state, progress, index, totalMonths,
\* fullMonthsLived, theme): the calls it makes on ctx, in order.
DrawSquareCell(position, cellSize, state, progress, index, totalMonths, fullMonthsLived, theme) ==
    LET drawSize == DrawSize(cellSize)
        drawX == DrawX(position, cellSize)
        drawY == DrawY(position, cellSize)
        color == GetCellColor(index, totalMonths, fullMonthsLived, theme)
    IN  IF state = "past"
        THEN <<Assign("fillStyle", color),
               Shape("fillRect", drawX, drawY, drawSize, drawSize)>>
        ELSE IF state = "present"
        THEN <<Plain("save"),
               Plain("beginPath"),
               Shape("rect", drawX, drawY, FillWidth(drawSize, progress), drawSize),
               Plain("clip"),
               Assign("fillStyle", color),
               Shape("fillRect", drawX, drawY, drawSize, drawSize),
               Plain("restore"),
               Assign("strokeStyle", NeutralColor(theme)),
               Shape("strokeRect", drawX, drawY, drawSize, drawSize)>>
        ELSE IF state = "future"
        THEN <<Assign("strokeStyle", NeutralColor(theme)),
               Shape("strokeRect", drawX, drawY, drawSize, drawSize)>>
        ELSE <<>>

\* ctx.beginPath(); ctx.arc(centerX, centerY, radius, 0, 2 * Math.PI); ctx.closePath()
CirclePath(drawX, drawY, drawSize) ==
    LET centerX == JAdd(drawX, JDiv(drawSize, Num(2)))
        centerY == JAdd(drawY, JDiv(drawSize, Num(2)))
        radius  == JDiv(drawSize, Num(2))
    IN  <<Plain("beginPath"), Shape("arc", centerX, centerY, radius, radius),
          Plain("closePath")>>

\* A variant that strokes the outline before it removes the clip.
DrawCircleCellOutlineClipped(position, cellSize, state, progress, index, totalMonths, fullMonthsLived, theme) ==
    LET drawSize == DrawSize(cellSize)
        drawX == DrawX(position, cellSize)
        drawY == DrawY(position, cellSize)
        color == GetCellColor(index, totalMonths, fullMonthsLived, theme)
        circle == CirclePath(drawX, drawY, drawSize)
    IN  IF state = "past"
        THEN <<Assign("fillStyle", color)>> \o circle \o <<Plain("fill")>>
        ELSE IF state = "present"
        THEN <<Plain("save"),
               Plain("beginPath"),
               Shape("rect", drawX, drawY, FillWidth(drawSize, progress), drawSize),
               Plain("clip"),
               Assign("fillStyle", color)>>
             \o circle \o <<Plain("fill"), Assign("strokeStyle", NeutralColor(theme))>>
             \o circle \o <<Plain("stroke"), Plain("restore")>>
        ELSE IF state = "future"
        THEN <<Assign("strokeStyle", NeutralColor(theme))>> \o circle \o <<Plain("stroke")>>
        ELSE <<>>

\* drawCircleCell(ctx, position, cellSize, state, progress, index, totalMonths,
\* fullMonthsLived, theme)
DrawCircleCell(position, cellSize, state, progress, index, totalMonths, fullMonthsLived, theme) ==
    LET drawSize == DrawSize(cellSize)
        drawX == DrawX(position, cellSize)
        drawY == DrawY(position, cellSize)
        color == GetCellColor(index, totalMonths, fullMonthsLived, theme)
        circle == CirclePath(drawX, drawY, drawSize)
    IN  IF state = "past"
        THEN <<Assign("fillStyle", color)>> \o circle \o <<Plain("fill")>>
        ELSE IF state = "present"
        THEN <<Plain("save"),
               Plain("beginPath"),
               Shape("rect", drawX, drawY, FillWidth(drawSize, progress), drawSize),
               Plain("clip"),
               Assign("fillStyle", color)>>
             \o circle \o <<Plain("fill"), Plain("restore"),
                            Assign("strokeStyle", NeutralColor(theme))>>
             \o circle \o <<Plain("stroke")>>
        ELSE IF state = "future"
        THEN <<Assign("strokeStyle", NeutralColor(theme))>> \o circle \o <<Plain("stroke")>>
        ELSE <<>>

\* createHeartPath(ctx, x, y, size): beginPath, the heart outline (moveTo and
\* two bezierCurveTo, kept as one call with the bounding box), closePath.
CreateHeartPath(x, y, size) ==
    <<Plain("beginPath"), Shape("heart", x, y, size, size), Plain("closePath")>>

\* A variant that forgets to restore after the clipped fill.
DrawHeartCellClipKept(position, cellSize, state, progress, index, totalMonths, fullMonthsLived, theme) ==
    LET drawSize == DrawSize(cellSize)
        drawX == DrawX(position, cellSize)
        drawY == DrawY(position, cellSize)
        color == GetCellColor(index, totalMonths, fullMonthsLived, theme)
        heart == CreateHeartPath(drawX, drawY, drawSize)
    IN  IF state = "past"
        THEN <<Assign("fillStyle", color)>> \o heart \o <<Plain("fill")>>
        ELSE IF state = "present"
        THEN <<Plain("save"),
               Plain("beginPath"),
               Shape("rect", drawX, drawY, FillWidth(drawSize, progress), drawSize),
               Plain("clip"),
               Assign("fillStyle", color)>>
             \o heart \o <<Plain("fill"), Assign("strokeStyle", NeutralColor(theme))>>
             \o heart \o <<Plain("stroke")>>
        ELSE IF state = "future"
        THEN <<Assign("strokeStyle", NeutralColor(theme))>> \o heart \o <<Plain("stroke")>>
        ELSE <<>>

\* drawHeartCell(ctx, position, cellSize, state, progress, index, totalMonths,
\* fullMonthsLived, theme)
DrawHeartCell(position, cellSize, state, progress, index, totalMonths, fullMonthsLived, theme) ==
    LET drawSize == DrawSize(cellSize)
        drawX == DrawX(position, cellSize)
        drawY == DrawY(position, cellSize)
        color == GetCellColor(index, totalMonths, fullMonthsLived, theme)
        heart == CreateHeartPath(drawX, drawY, drawSize)
    IN  IF state = "past"
        THEN <<Assign("fillStyle", color)>> \o heart \o <<Plain("fill")>>
        ELSE IF state = "present"
        THEN <<Plain("save"),
               Plain("beginPath"),
               Shape("rect", drawX, drawY, FillWidth(drawSize, progress), drawSize),
               Plain("clip"),
               Assign("fillStyle", color)>>
             \o heart \o <<Plain("fill"), Plain("restore"),
                           Assign("strokeStyle", NeutralColor(theme))>>
             \o heart \o <<Plain("stroke")>>
        ELSE IF state = "future"
        THEN <<Assign("strokeStyle", NeutralColor(theme))>> \o heart \o <<Plain("stroke")>>
        ELSE <<>>

\* A variant that hands every cell the progress of the current month.
CellProgressAlwaysCurrent(cellState, currentMonthProgress) == currentMonthProgress

\* let progress = 1; if (cellState === 'present') progress = currentMonthProgress
CellProgress(cellState, currentMonthProgress) ==
    IF cellState = "present" THEN currentMonthProgress ELSE Num(1)

\* switch (shape): the routine called, if any, and the calls it makes.
Dispatch(shape, position, cellSize, state, progress, index, totalMonths, fullMonthsLived, theme) ==
    IF shape = "square"
    THEN [routine |-> "drawSquareCell",
          calls |-> DrawSquareCell(position, cellSize, state, progress, index,
                                   totalMonths, fullMonthsLived, theme)]
    ELSE IF shape = "circle"
    THEN [routine |-> "drawCircleCell",
          calls |-> DrawCircleCell(position, cellSize, state, progress, index,
                                   totalMonths, fullMonthsLived, theme)]
    ELSE IF shape = "heart"
    THEN [routine |-> "drawHeartCell",
          calls |-> DrawHeartCell(position, cellSize, state, progress, index,
                                  totalMonths, fullMonthsLived, theme)]
    ELSE [routine |-> "", calls |-> <<>>]

\* The arguments of one draw routine call, as kept in `dispatched`.
DrawArgs(routine, position, cellSize, state, progress, index, totalMonths, fullMonthsLived, theme) ==
    [routine |-> routine, position |-> position, cellSize |-> cellSize, state |-> state,
     progress |-> progress, index |-> index, totalMonths |-> totalMonths,
     fullMonthsLived |-> fullMonthsLived, theme |-> theme]

(***************************************************************************)
(* Render configuration builder                                            *)
(***************************************************************************)
ThemePreferences == {"light", "dark", "system"}
ThemeModes       == {"light", "dark"}
Shapes           == {"square", "circle", "heart"}

\* defaultConfig
DefaultConfig ==
    [dob |-> "1995-01-01", expectancy |-> Num(80),
     message |-> "Your time, your story.", theme |-> "light", shape |-> "square"]

\* A variant that never asks the host and takes 'system' for light.
ResolveThemeSystemAsLight(themePreference) ==
    IF themePreference = "dark" THEN "dark" ELSE "light"

\* resolveTheme(themePreference)
ResolveTheme(themePreference) ==
    IF themePreference = "light" THEN "light"
    ELSE IF themePreference = "dark" THEN "dark"
    ELSE IF prefersDark THEN "dark" ELSE "light"

\* buildRenderConfig(userConfig)
BuildRenderConfig(config) ==
    [totalMonths          |-> config.expectancy * 12,
     fullMonthsLived      |-> GetFullMonthsLived(config.dob),
     currentMonthProgress |-> GetCurrentMonthProgress(config.dob),
     themeMode            |-> ResolveTheme(config.theme),
     message              |-> config.message,
     shape                |-> config.shape]

(***************************************************************************)
(* Inputs                                                                  *)
(***************************************************************************)
\* Offsets of local time from UTC: UTC-12h, UTC, UTC+12h.
TimeZones == {-1, 0, 1}

\* Birth-date strings: days of the year 2000 that start a month or that some
\* month lacks, and one text that is no date.
DobDays == {1, 29, 30, 31}
DobStrings ==
    {str \in {IsoString(2000, m, d) : m \in 1..12, d \in DobDays} : IsCalendarDate(str)}
        \cup {NotADate}

\* totalMonths = expectancy * 12, and the expectancy may be any number: the
\* persistence layer accepts whatever number is stored, zero and negatives too.
TotalMonthsValues == {0 - 12, 10} \cup (0..MaxTotal)
ViewportSides     == (0..MaxSide) \cup {100}
Indices           == (0 - IndexMargin)..(MaxTotal + IndexMargin)

\* User configurations handed to the builder: the expectancy is any number the
\* persistence layer lets through, theme and shape are validated values.
Expectancies  == {0, 1, 80}
Messages      == {"", "Your time, your story."}
BuildDobs     == {NotADate, IsoString(2000, 1, 31)}
BuildInstants == {200}
UserConfigs ==
    [dob : BuildDobs, expectancy : Expectancies, message : Messages,
     theme : ThemePreferences, shape : Shapes]

\* Render configurations and viewport sizes handed to renderLifeTimeline.
ProgressValues == {Num(0), Fin(1, 1, 2)}
PaintConfigs ==
    [totalMonths : 0..MaxCells, fullMonthsLived : 0..MaxCells,
     currentMonthProgress : ProgressValues, themeMode : ThemeModes,
     message : {""}, shape : Shapes]
Viewports == {<<0, 0>>, <<1, 2>>}

\* Arguments of a draw routine called on its own: any state, progress values
\* inside and outside [0, 1], cells before, inside and after a timeline of three
\* months or of none, of which two months are lived.
DrawProgress  == {Fin(-1, 1, 2), Num(0), Fin(1, 1, 2), Num(1), Fin(1, 3, 2)}
DrawIndices   == (0 - 1)..3
DrawTotals    == {0, 3}
DrawLived     == {2}
DrawCellSizes == {Num(0), Num(25)}
DrawPositions == {[x |-> Num(10), y |-> Num(20)]}

\* Contexts a caller hands over: a fresh one, and one on which the caller has
\* saved a state and set a clip of its own.
CallerContexts ==
    {FreshContext,
     [FreshContext EXCEPT
         !.saved = <<[clip |-> NoClip, fillStyle |-> HexColor("#000000"),
                      strokeStyle |-> HexColor("#000000")]>>,
         !.clip = ClipRect(Num(0), Num(0), Num(100), Num(100))]}

(***************************************************************************)
(* Temporal derivation under a running clock                               *)
(*                                                                         *)
(* The program may be started at any instant.  From then on the clock      *)
(* advances by half a day at a time, and the two temporal functions are    *)
(* evaluated once at every instant (as buildRenderConfig evaluates them,   *)
(* one after the other).                                                   *)
(***************************************************************************)
GridIdle ==
    /\ renderConfig = [totalMonths |-> 0, fullMonthsLived |-> 0]
    /\ width = 0
    /\ height = 0
    /\ layoutConfig = ComputeGridLayout(Num(0), Num(0), Num(0))
    /\ cell = <<>>

BuildIdle ==
    /\ userConfig = DefaultConfig
    /\ prefersDark = FALSE

PaintIdle ==
    /\ ctx = FreshContext
    /\ ops = <<>>
    /\ dispatched = <<>>
    /\ loopIndex = -1

\* No component is mounted and nothing is stored.
Unmounted == [mounted |-> FALSE]
NoItem    == [state |-> "missing", text |-> [form |-> "empty", members |-> <<>>]]
UiIdle ==
    /\ app = Unmounted
    /\ storage = NoItem
    /\ drawer = Unmounted
    /\ surface = Unmounted
    /\ timer = Unmounted

InitTime ==
    /\ now \in 0..MaxTicks
    /\ tz \in TimeZones
    /\ dob \in DobStrings
    /\ sampled = TRUE
    /\ monthsLived = GetFullMonthsLived(dob)
    /\ monthProgress = GetCurrentMonthProgress(dob)
    /\ GridIdle
    /\ BuildIdle
    /\ PaintIdle
    /\ UiIdle

\* const fullMonthsLived = getFullMonthsLived(dob)
\* const currentMonthProgress = getCurrentMonthProgress(dob)
Derive ==
    /\ ~sampled
    /\ monthsLived' = GetFullMonthsLived(dob)
    /\ monthProgress' = GetCurrentMonthProgress(dob)
    /\ sampled' = TRUE
    /\ UNCHANGED <<now, tz, dob>>
    /\ UNCHANGED <<gridVars, buildVars, paintVars>>
    /\ UNCHANGED uiVars

\* Time passes: the next `new Date()` reads half a day later.
Tick ==
    /\ sampled
    /\ now < MaxTicks
    /\ now' = now + 1
    /\ sampled' = FALSE
    /\ UNCHANGED <<tz, dob, monthsLived, monthProgress>>
    /\ UNCHANGED <<gridVars, buildVars, paintVars>>
    /\ UNCHANGED uiVars

NextTime == Derive \/ Tick

SpecTime == InitTime /\ [][NextTime]_vars

(***************************************************************************)
(* Grid pipeline: layout, position mapper and classifier                   *)
(***************************************************************************)
TimeIdle ==
    /\ now = 0
    /\ tz = 0
    /\ dob = NotADate
    /\ sampled = TRUE
    /\ monthsLived = 0
    /\ monthProgress = Num(0)

InitGrid ==
    /\ TimeIdle
    /\ BuildIdle
    /\ PaintIdle
    /\ renderConfig \in [totalMonths : TotalMonthsValues, fullMonthsLived : 0..MaxLived]
    /\ width \in ViewportSides
    /\ height \in ViewportSides
    /\ layoutConfig = ComputeGridLayout(Num(renderConfig.totalMonths), Num(width), Num(height))
    /\ cell = <<>>
    /\ UiIdle

\* A repaint at a new viewport size: renderLifeTimeline computes the layout
\* from renderConfig.totalMonths and the size it is handed.
Resize(w, h) ==
    /\ width' = w
    /\ height' = h
    /\ layoutConfig' = ComputeGridLayout(Num(renderConfig.totalMonths), Num(w), Num(h))
    /\ cell' = <<>>
    /\ UNCHANGED renderConfig
    /\ UNCHANGED <<envVars, timeVars, buildVars, paintVars>>
    /\ UNCHANGED uiVars

\* const cellPosition = getCellPosition(index, layoutConfig)
\* const cellState = getCellState(index, renderConfig)
MapCell(i) ==
    /\ cell' = <<[index |-> i,
                  position |-> GetCellPosition(Num(i), layoutConfig),
                  state |-> GetCellState(i, renderConfig)]>>
    /\ UNCHANGED <<renderConfig, width, height, layoutConfig>>
    /\ UNCHANGED <<envVars, timeVars, buildVars, paintVars>>
    /\ UNCHANGED uiVars

NextGrid ==
    \/ \E w \in ViewportSides, h \in ViewportSides : Resize(w, h)
    \/ \E i \in Indices : MapCell(i)

SpecGrid == InitGrid /\ [][NextGrid]_vars

(***************************************************************************)
(* Render configuration builder under configuration and theme changes      *)
(*                                                                         *)
(* A caller builds the render configuration from a configuration of its    *)
(* own, again after every change.  `sampled` is                            *)
(* TRUE while renderConfig is the result of a call made with the current   *)
(* userConfig and the current prefers-dark signal.                         *)
(***************************************************************************)
InitBuild ==
    /\ now \in BuildInstants
    /\ tz = 0
    /\ dob = NotADate
    /\ monthsLived = 0
    /\ monthProgress = Num(0)
    /\ userConfig \in UserConfigs
    /\ prefersDark \in BOOLEAN
    /\ sampled = TRUE
    /\ renderConfig = BuildRenderConfig(userConfig)
    /\ width = 0
    /\ height = 0
    /\ layoutConfig = ComputeGridLayout(Num(0), Num(0), Num(0))
    /\ cell = <<>>
    /\ PaintIdle
    /\ UiIdle

\* handleConfigUpdate(newConfig): setUserConfig(newConfig)
SetUserConfig(newConfig) ==
    /\ userConfig' = newConfig
    /\ sampled' = FALSE
    /\ UNCHANGED <<now, tz, dob, monthsLived, monthProgress, prefersDark>>
    /\ UNCHANGED <<gridVars, paintVars>>
    /\ UNCHANGED uiVars

\* The host switches between its light and dark appearance.
ThemeSignalChange ==
    /\ prefersDark' = ~prefersDark
    /\ sampled' = FALSE
    /\ UNCHANGED <<now, tz, dob, monthsLived, monthProgress, userConfig>>
    /\ UNCHANGED <<gridVars, paintVars>>
    /\ UNCHANGED uiVars

\* An App render: const renderConfig = buildRenderConfig(safeConfig)
Render ==
    /\ renderConfig' = BuildRenderConfig(userConfig)
    /\ sampled' = TRUE
    /\ UNCHANGED <<now, tz, dob, monthsLived, monthProgress>>
    /\ UNCHANGED <<width, height, layoutConfig, cell>>
    /\ UNCHANGED <<buildVars, paintVars>>
    /\ UNCHANGED uiVars

NextBuild ==
    \/ \E newConfig \in UserConfigs : SetUserConfig(newConfig)
    \/ ThemeSignalChange
    \/ Render

SpecBuild == InitBuild /\ [][NextBuild]_vars

\* C13: buildRenderConfig(userConfig) returns totalMonths = expectancy * 12 and
\* the message and shape it was given; themeMode is 'light' or 'dark': 'light' for
\* preference light, 'dark' for preference dark, and for preference system 'dark'
\* exactly when the host prefers dark at the moment of the call.
Thm_C13_BuilderPassesThroughAndResolvesTheme ==
    sampled =>
        /\ renderConfig.totalMonths = userConfig.expectancy * 12
        /\ renderConfig.message = userConfig.message
        /\ renderConfig.shape = userConfig.shape
        /\ renderConfig.themeMode \in ThemeModes
        /\ userConfig.theme = "light" => renderConfig.themeMode = "light"
        /\ userConfig.theme = "dark" => renderConfig.themeMode = "dark"
        /\ userConfig.theme = "system" => (renderConfig.themeMode = "dark" <=> prefersDark)

\* A configuration on 'system' built while the host prefers dark.
Wit_C13_SystemResolvedDark ==
    /\ sampled
    /\ userConfig.theme = "system"
    /\ prefersDark
    /\ renderConfig.themeMode = "dark"
    /\ renderConfig.totalMonths = 960

(***************************************************************************)
(* Render loop                                                             *)
(*                                                                         *)
(* A repaint resizes the canvas, which resets its context, and calls       *)
(* renderLifeTimeline; the loop of renderLifeTimeline is followed one      *)
(* iteration at a time.                                                    *)
(***************************************************************************)
\* ctx.clearRect(0, 0, canvasWidth, canvasHeight)
ClearSurface(w, h) == Shape("clearRect", Num(0), Num(0), Num(w), Num(h))

InitPaint ==
    /\ TimeIdle
    /\ BuildIdle
    /\ renderConfig \in PaintConfigs
    /\ \E size \in Viewports : width = size[1] /\ height = size[2]
    /\ ctx = FreshContext
    /\ ops = <<Entry(FreshContext, ClearSurface(width, height), 0)>>
    /\ layoutConfig = ComputeGridLayout(Num(renderConfig.totalMonths), Num(width), Num(height))
    /\ dispatched = <<>>
    /\ cell = <<>>
    /\ loopIndex = 0
    /\ UiIdle

\* repaintCanvas(canvas, ctx, renderConfig) up to the loop of renderLifeTimeline
Repaint(config, w, h) ==
    /\ loopIndex = -1
    /\ renderConfig' = config
    /\ width' = w
    /\ height' = h
    /\ ctx' = FreshContext
    /\ ops' = <<Entry(FreshContext, ClearSurface(w, h), 0)>>
    /\ layoutConfig' = ComputeGridLayout(Num(config.totalMonths), Num(w), Num(h))
    /\ dispatched' = <<>>
    /\ cell' = <<>>
    /\ loopIndex' = 0
    /\ UNCHANGED <<envVars, timeVars, buildVars>>
    /\ UNCHANGED uiVars

\* A variant of the loop condition that runs one index further.
LoopRunsToTotal(index, totalMonths) == index <= totalMonths

\* The loop condition: index <= totalMonths - 1
LoopContinues(index, totalMonths) == index <= totalMonths - 1

\* One iteration of for (let index = 0; index <= totalMonths - 1; ++index)
DrawNextCell ==
    /\ loopIndex >= 0
    /\ LoopContinues(loopIndex, renderConfig.totalMonths)
    /\ LET index == loopIndex
           cellPosition == GetCellPosition(Num(index), layoutConfig)
           cellState == GetCellState(index, renderConfig)
           progress == CellProgress(cellState, renderConfig.currentMonthProgress)
           chosen == Dispatch(renderConfig.shape, cellPosition, layoutConfig.cellSize,
                              cellState, progress, index, renderConfig.totalMonths,
                              renderConfig.fullMonthsLived, renderConfig.themeMode)
           done == Perform(ctx, ops, chosen.calls, Len(dispatched) + 1)
       IN  /\ cell' = <<[index |-> index, position |-> cellPosition, state |-> cellState]>>
           /\ dispatched' =
                 IF chosen.routine = "" THEN dispatched
                 ELSE Append(dispatched,
                             DrawArgs(chosen.routine, cellPosition, layoutConfig.cellSize,
                                      cellState, progress, index, renderConfig.totalMonths,
                                      renderConfig.fullMonthsLived, renderConfig.themeMode))
           /\ ctx' = done.ctx
           /\ ops' = done.ops
    /\ loopIndex' = loopIndex + 1
    /\ UNCHANGED <<renderConfig, width, height, layoutConfig>>
    /\ UNCHANGED <<envVars, timeVars, buildVars>>
    /\ UNCHANGED uiVars

\* The loop condition fails: renderLifeTimeline returns.
FinishPass ==
    /\ loopIndex >= 0
    /\ ~LoopContinues(loopIndex, renderConfig.totalMonths)
    /\ loopIndex' = -1
    /\ UNCHANGED <<ctx, ops, dispatched>>
    /\ UNCHANGED <<envVars, timeVars, gridVars, buildVars>>
    /\ UNCHANGED uiVars

NextPaint ==
    \/ \E config \in PaintConfigs, size \in Viewports : Repaint(config, size[1], size[2])
    \/ DrawNextCell
    \/ FinishPass

SpecPaint == InitPaint /\ [][NextPaint]_vars

\* The routine that renderLifeTimeline calls for a shape.
RoutineOf(shape) ==
    IF shape = "square" THEN "drawSquareCell"
    ELSE IF shape = "circle" THEN "drawCircleCell" ELSE "drawHeartCell"

\* C14: a renderLifeTimeline call clears the full surface before any cell is
\* drawn, then makes exactly one draw call per index 0, 1, ..., totalMonths - 1 in
\* ascending order, to the routine of renderConfig.shape, with progress =
\* currentMonthProgress for a present cell and progress = 1 for any other.
Thm_C14_ClearThenOneDrawPerIndex ==
    /\ ops # <<>>
    /\ ops[1].call = "clearRect"
    /\ ops[1].x = Num(0) /\ ops[1].y = Num(0)
    /\ ops[1].w = Num(width) /\ ops[1].h = Num(height)
    /\ \A n \in 2..Len(ops) : ops[n].call # "clearRect" /\ ops[n].by >= 1
    /\ \A n \in 2..Len(ops) : ops[n - 1].by <= ops[n].by
    /\ loopIndex >= 0 => Len(dispatched) = loopIndex
    /\ loopIndex = -1 => Len(dispatched) = renderConfig.totalMonths
    /\ \A n \in 1..Len(dispatched) :
          /\ dispatched[n].index = n - 1
          /\ dispatched[n].routine = RoutineOf(renderConfig.shape)
          /\ dispatched[n].state = "present" =>
                dispatched[n].progress = renderConfig.currentMonthProgress
          /\ dispatched[n].state # "present" => dispatched[n].progress = Num(1)

\* A finished pass over three cells, the middle one half-way through.
Wit_C14_PassOverThreeCells ==
    /\ loopIndex = -1
    /\ Len(dispatched) = 3
    /\ dispatched[2].state = "present"
    /\ dispatched[2].progress = Fin(1, 1, 2)
    /\ dispatched[3].state = "future"

(***************************************************************************)
(* Draw routines called on their own                                       *)
(*                                                                         *)
(* The three routines are exported: any caller may draw one cell on a      *)
(* context of its own.  A behaviour is one such call on the context the    *)
(* caller hands over; `ops` holds the calls the routine made and           *)
(* `dispatched` its arguments.                                             *)
(***************************************************************************)
InitDraw ==
    /\ TimeIdle
    /\ BuildIdle
    /\ GridIdle
    /\ ctx \in CallerContexts
    /\ ops = <<>>
    /\ dispatched = <<>>
    /\ loopIndex = -1
    /\ UiIdle

\* drawSquareCell / drawCircleCell / drawHeartCell (ctx, position, cellSize,
\* state, progress, index, totalMonths, fullMonthsLived, theme)
DrawCell(shape, position, cellSize, state, progress, index, totalMonths, fullMonthsLived, theme) ==
    /\ dispatched = <<>>
    /\ LET chosen == Dispatch(shape, position, cellSize, state, progress, index,
                              totalMonths, fullMonthsLived, theme)
           done == Perform(ctx, <<>>, chosen.calls, 1)
       IN  /\ ctx' = done.ctx
           /\ ops' = done.ops
           /\ dispatched' = <<DrawArgs(chosen.routine, position, cellSize, state, progress,
                                       index, totalMonths, fullMonthsLived, theme)>>
    /\ UNCHANGED loopIndex
    /\ UNCHANGED <<envVars, timeVars, gridVars, buildVars>>
    /\ UNCHANGED uiVars

NextDraw ==
    \E shape \in Shapes, position \in DrawPositions, cellSize \in DrawCellSizes,
       state \in CellStates, progress \in DrawProgress, index \in DrawIndices,
       totalMonths \in DrawTotals, fullMonthsLived \in DrawLived, theme \in ThemeModes :
        DrawCell(shape, position, cellSize, state, progress, index, totalMonths,
                 fullMonthsLived, theme)

SpecDraw == InitDraw /\ [][NextDraw]_vars

\* Positions in the record of calls, by name of the call.
CallsNamed(names) == {n \in 1..Len(ops) : ops[n].call \in names}
Fills   == CallsNamed({"fill", "fillRect"})
Strokes == CallsNamed({"stroke", "strokeRect"})

\* C15: every call of a draw routine, for every state, saves and restores in
\* pairs: as many restore() as save(), no restore() before its save(), and the
\* depth of the saved-state stack and the clip region after the call are those
\* before it; so they are unchanged after any sequence of draw calls.
Thm_C15_SaveRestoreBalanced ==
    [][/\ Cardinality({n \in 1..Len(ops') : ops'[n].call = "save"})
            = Cardinality({n \in 1..Len(ops') : ops'[n].call = "restore"})
       /\ \A n \in 1..Len(ops') :
             Cardinality({m \in 1..n : ops'[m].call = "restore"})
                 <= Cardinality({m \in 1..n : ops'[m].call = "save"})
       /\ Len(ctx'.saved) = Len(ctx.saved)
       /\ ctx'.clip = ctx.clip]_vars

\* A present cell drawn on a context that already holds a saved state and a clip.
Wit_C15_PresentCellOnClippedContext ==
    /\ dispatched # <<>>
    /\ dispatched[1].state = "present"
    /\ Cardinality(CallsNamed({"save"})) = 1
    /\ Len(ctx.saved) = 1
    /\ ctx.clip = ClipRect(Num(0), Num(0), Num(100), Num(100))

\* The padded drawable square as the specification gives it: an 8% gap, the
\* square centred in the cell.
PaddedSize(a) == JMul(Fin(1, 23, 25), a.cellSize)
PaddedX(a)    == JAdd(a.position.x, JMul(Fin(1, 1, 25), a.cellSize))
PaddedY(a)    == JAdd(a.position.y, JMul(Fin(1, 1, 25), a.cellSize))

\* The painted shape is the full shape of the routine on the padded square.
IsFullShape(entry, a) ==
    IF a.routine = "drawSquareCell"
    THEN /\ entry.kind = "rect"
         /\ entry.x = PaddedX(a) /\ entry.y = PaddedY(a)
         /\ entry.w = PaddedSize(a) /\ entry.h = PaddedSize(a)
    ELSE IF a.routine = "drawCircleCell"
    THEN /\ entry.kind = "arc"
         /\ entry.x = JAdd(PaddedX(a), JDiv(PaddedSize(a), Num(2)))
         /\ entry.y = JAdd(PaddedY(a), JDiv(PaddedSize(a), Num(2)))
         /\ entry.w = JDiv(PaddedSize(a), Num(2))
    ELSE /\ entry.kind = "heart"
         /\ entry.x = PaddedX(a) /\ entry.y = PaddedY(a)
         /\ entry.w = PaddedSize(a)

\* The neutral colour of a theme: Gray-300 on light, Gray-700 on dark.
IsNeutral(color, theme) ==
    color = HexColor(IF theme = "light" THEN "#D1D5DB" ELSE "#374151")

\* C16: each shape routine draws a past cell with exactly one fill of the full
\* shape and no stroke, and a future or an empty cell with exactly one stroke of
\* the full shape outline in the neutral colour of the theme and no fill.
Cex_C16_PastFilledOthersOutlined ==
    dispatched # <<>> =>
        LET a == dispatched[1]
        IN  /\ a.state = "past" =>
                  /\ Cardinality(Fills) = 1
                  /\ Strokes = {}
                  /\ \A n \in Fills : IsFullShape(ops[n], a)
            /\ a.state \in {"future", "empty"} =>
                  /\ Cardinality(Strokes) = 1
                  /\ Fills = {}
                  /\ \A n \in Strokes :
                        IsFullShape(ops[n], a) /\ IsNeutral(ops[n].style, a.theme)

\* The names of the calls that save, clip, paint and restore, in order.
PaintingCalls ==
    LET marks == SelectSeq(ops, LAMBDA e : e.call \in {"save", "clip", "fill", "fillRect",
                                                      "restore", "stroke", "strokeRect"})
    IN  [n \in 1..Len(marks) |->
            IF marks[n].call = "fillRect" THEN "fill"
            ELSE IF marks[n].call = "strokeRect" THEN "stroke"
            ELSE marks[n].call]

\* C17: for a present cell every shape routine calls, in this order, save, the
\* rectangular clip, the fill of the full shape in the resolved colour, restore,
\* and then the stroke of the full outline in the neutral colour; the fill is
\* made while the clip is active, the stroke after the clip has been removed.
Thm_C17_PresentCellClippedFillThenOutline ==
    (dispatched # <<>> /\ dispatched[1].state = "present") =>
        LET a == dispatched[1]
        IN  /\ PaintingCalls = <<"save", "clip", "fill", "restore", "stroke">>
            /\ \A n \in CallsNamed({"clip"}) : ops[n].kind = "rect"
            /\ \A n \in Fills :
                  /\ IsFullShape(ops[n], a)
                  /\ ops[n].depth = ops[1].depth + 1
                  /\ ops[n].clip.on
                  /\ ops[n].clip # ops[1].clip
                  /\ \E m \in CallsNamed({"fillStyle"}) :
                        /\ \A k \in CallsNamed({"clip"}) : k < m
                        /\ m < n
                        /\ IsCssColor(ops[m].style) => ops[n].style = ops[m].style
            /\ \A n \in Strokes :
                  /\ IsFullShape(ops[n], a)
                  /\ IsNeutral(ops[n].style, a.theme)
                  /\ ops[n].depth = ops[1].depth
                  /\ ops[n].clip = ops[1].clip

\* A present heart cell, half-way through, drawn on a fresh context.
Wit_C17_PresentHeartHalfFilled ==
    /\ dispatched # <<>>
    /\ dispatched[1].state = "present"
    /\ dispatched[1].routine = "drawHeartCell"
    /\ dispatched[1].progress = Fin(1, 1, 2)
    /\ dispatched[1].cellSize = Num(25)
    /\ Cardinality(Fills) = 1
    /\ \A n \in Strokes : ~ops[n].clip.on

\* The clip() calls made on behalf of the present cells that were dispatched.
PresentClips ==
    {n \in 1..Len(ops) : ops[n].call = "clip" /\ dispatched[ops[n].by].state = "present"}

\* C18: for a present cell the clip rectangle starts at (drawX, drawY), is
\* drawSize high and w = clamp(drawSize * progress, 0, drawSize) wide, so that
\* 0 <= w <= drawSize for every progress value, and progress 0.5 clips to
\* exactly the left half of the padded drawable rectangle.
Cex_C18_ClipRectangleGeometry ==
    \A n \in PresentClips :
        LET a == dispatched[ops[n].by]
            scaled == JMul(PaddedSize(a), a.progress)
        IN  /\ ops[n].kind = "rect"
            /\ JEq(ops[n].x, PaddedX(a))
            /\ JEq(ops[n].y, PaddedY(a))
            /\ JEq(ops[n].h, PaddedSize(a))
            /\ JEq(ops[n].w, IF JLt(scaled, Num(0)) THEN Num(0)
                              ELSE IF JLt(PaddedSize(a), scaled) THEN PaddedSize(a)
                              ELSE scaled)
            /\ JLe(Num(0), ops[n].w)
            /\ JLe(ops[n].w, PaddedSize(a))
            /\ a.progress = Fin(1, 1, 2) => JEq(ops[n].w, JDiv(PaddedSize(a), Num(2)))

\* The gradient of a theme: green to red on light, teal to amber on dark.
GradientStart(theme) == IF theme = "light" THEN <<34, 197, 94>> ELSE <<20, 184, 166>>
GradientEnd(theme)   == IF theme = "light" THEN <<239, 68, 68>> ELSE <<245, 158, 11>>

\* t = clamp(index / totalMonths, 0, 1) as the fraction ClampedT[1] / ClampedT[2]
\* (a positive index over zero months is +Infinity, a negative one -Infinity).
ClampedT(index, totalMonths) ==
    LET Within(p, q) == IF p < 0 THEN 0 ELSE IF p > q THEN q ELSE p
    IN  IF totalMonths > 0 THEN <<Within(index, totalMonths), totalMonths>>
        ELSE IF totalMonths < 0 THEN <<Within(0 - index, 0 - totalMonths), 0 - totalMonths>>
        ELSE <<IF index > 0 THEN 1 ELSE 0, 1>>

\* c is the integer nearest to from + (to - from) * p / q, halves rounded up.
IsRoundedLerp(c, from, to, p, q) ==
    /\ IsFinite(c)
    /\ c.d = 1
    /\ 2 * IntOf(c) * q <= 2 * (from * q + (to - from) * p) + q
    /\ 2 * (from * q + (to - from) * p) + q < 2 * (IntOf(c) + 1) * q

\* The colours the routines obtained from getCellColor: the values they assign
\* to fillStyle.
ResolvedColors == CallsNamed({"fillStyle"})

Thm_C22_DrawnCellsLieInTheGrid ==
    (renderConfig.totalMonths >= 1 /\ width > 0 /\ height > 0) =>
        /\ loopIndex >= 0 => Len(dispatched) = loopIndex
        /\ \A n \in 1..Len(dispatched) :
              LET a == dispatched[n]
              IN  /\ a.index = n - 1
                  /\ 0 <= a.index /\ a.index < renderConfig.totalMonths
                  /\ JLt(Num(a.index), JMul(layoutConfig.rows, layoutConfig.columns))
                  /\ a.position # [x |-> JNeg(layoutConfig.cellSize),
                                   y |-> JNeg(layoutConfig.cellSize)]
                  /\ JLe(layoutConfig.offsetX, a.position.x)
                  /\ JLe(layoutConfig.offsetY, a.position.y)
                  /\ a.state # "empty"

\* A finished pass over three months on a grid of two rows and two columns: the
\* fourth grid cell was not drawn.
Wit_C22_ThreeMonthsOnFourCells ==
    /\ loopIndex = -1
    /\ width = 1 /\ height = 2
    /\ renderConfig.totalMonths = 3
    /\ layoutConfig.rows = Num(2) /\ layoutConfig.columns = Num(2)
    /\ Len(dispatched) = 3

\* C23: across a renderLifeTimeline pass every fill (the past cells and the
\* clipped fill of the present cell) uses an interpolated gradient colour and
\* never the neutral colour, and every stroke (the outline of the present cell
\* and the future cells) uses the neutral colour of the active theme.
Thm_C23_FillsGradientStrokesNeutral ==
    /\ \A n \in Fills :
          /\ dispatched[ops[n].by].state \in {"past", "present"}
          /\ ops[n].style.css = "rgb"
          /\ IsFinite(ops[n].style.r) /\ IsFinite(ops[n].style.g) /\ IsFinite(ops[n].style.b)
          /\ \A theme \in ThemeModes : ~IsNeutral(ops[n].style, theme)
    /\ \A n \in Strokes :
          /\ dispatched[ops[n].by].state \in {"present", "future"}
          /\ IsNeutral(ops[n].style, renderConfig.themeMode)

\* A finished pass on the dark theme with a past, a present and a future cell.
Wit_C23_PastPresentFutureOnDark ==
    /\ loopIndex = -1
    /\ renderConfig.themeMode = "dark"
    /\ Len(dispatched) = 3
    /\ dispatched[1].state = "past"
    /\ dispatched[2].state = "present"
    /\ dispatched[3].state = "future"
    /\ Cardinality(Fills) = 2
    /\ Cardinality(Strokes) = 2

(***************************************************************************)
(* Properties of the grid pipeline (checked under SpecGrid)                *)
(***************************************************************************)
PositiveViewport == width > 0 /\ height > 0
LayoutFields == {layoutConfig.rows, layoutConfig.columns, layoutConfig.cellSize,
                 layoutConfig.offsetX, layoutConfig.offsetY}

\* C1: for totalUnits >= 1 and a viewport with width > 0 and height > 0,
\* computeGridLayout returns rows >= 1, columns >= 1, rows * columns >= totalUnits
\* and cellSize >= 0.
Thm_C1_LayoutHoldsAllUnits ==
    (renderConfig.totalMonths >= 1 /\ PositiveViewport) =>
        /\ IsInt(layoutConfig.rows)
        /\ IsInt(layoutConfig.columns)
        /\ IntOf(layoutConfig.rows) >= 1
        /\ IntOf(layoutConfig.columns) >= 1
        /\ IntOf(layoutConfig.rows) * IntOf(layoutConfig.columns) >= renderConfig.totalMonths
        /\ JLe(Num(0), layoutConfig.cellSize)

\* A layout of several rows whose last row is not full.
Wit_C1_SpareCells ==
    /\ renderConfig.totalMonths >= 1
    /\ PositiveViewport
    /\ IsInt(layoutConfig.rows)
    /\ IsInt(layoutConfig.columns)
    /\ IntOf(layoutConfig.rows) >= 2
    /\ IntOf(layoutConfig.rows) * IntOf(layoutConfig.columns) > renderConfig.totalMonths

\* C2: getCellState is total and returns exactly one of past/present/future/empty:
\* empty iff index < 0 or index >= totalMonths, otherwise past, present or future
\* as index is below, at or above fullMonthsLived.  Exactly one index is present
\* when fullMonthsLived < totalMonths; otherwise none is, and every index in
\* [0, totalMonths) is past.
Thm_C2_ClassifierPartition ==
    cell # <<>> =>
        LET i     == cell[1].index
            st    == cell[1].state
            total == renderConfig.totalMonths
            lived == renderConfig.fullMonthsLived
            inRange == 0 <= i /\ i < total
            presentIndices == {j \in Indices : GetCellState(j, renderConfig) = "present"}
        IN  /\ st \in CellStates
            /\ (st = "empty") <=> ~inRange
            /\ (st = "past") <=> (inRange /\ i < lived)
            /\ (st = "present") <=> (inRange /\ i = lived)
            /\ (st = "future") <=> (inRange /\ i > lived)
            /\ lived < total => presentIndices = {lived}
            /\ lived >= total =>
                  /\ presentIndices = {}
                  /\ \A j \in 0..(total - 1) : GetCellState(j, renderConfig) = "past"

\* The present cell has been classified, with lived cells before and others after.
Wit_C2_PresentCell ==
    /\ cell # <<>>
    /\ cell[1].state = "present"
    /\ cell[1].index >= 1
    /\ cell[1].index < renderConfig.totalMonths - 1

\* C6: for an index in [0, rows * columns), getCellPosition returns
\* x = offsetX + (index mod columns) * cellSize, y = offsetY + floor(index / columns)
\* * cellSize, and when cellSize > 0 rounding (x - offsetX) / cellSize and
\* (y - offsetY) / cellSize recovers column and row with index = row * columns + column.
Thm_C6_PositionRoundTrip ==
    (/\ cell # <<>>
     /\ IsInt(layoutConfig.rows)
     /\ IsInt(layoutConfig.columns)
     /\ cell[1].index >= 0
     /\ cell[1].index < IntOf(layoutConfig.rows) * IntOf(layoutConfig.columns)) =>
        LET i   == cell[1].index
            pos == cell[1].position
            columns == IntOf(layoutConfig.columns)
            size == layoutConfig.cellSize
            backColumn == MathRound(JDiv(JSub(pos.x, layoutConfig.offsetX), size))
            backRow    == MathRound(JDiv(JSub(pos.y, layoutConfig.offsetY), size))
        IN  /\ pos.x = JAdd(layoutConfig.offsetX, JMul(Num(i % columns), size))
            /\ pos.y = JAdd(layoutConfig.offsetY, JMul(Num(i \div columns), size))
            /\ JLt(Num(0), size) =>
                  /\ IsInt(backColumn)
                  /\ IsInt(backRow)
                  /\ IntOf(backColumn) = i % columns
                  /\ IntOf(backRow) = i \div columns
                  /\ IntOf(backRow) * columns + IntOf(backColumn) = i

\* A cell beyond the first row and the first column of a grid of visible cells.
Wit_C6_InnerCell ==
    /\ cell # <<>>
    /\ IsInt(layoutConfig.rows)
    /\ IsInt(layoutConfig.columns)
    /\ IntOf(layoutConfig.columns) >= 2
    /\ IntOf(layoutConfig.rows) > IntOf(layoutConfig.columns)
    /\ cell[1].index > IntOf(layoutConfig.columns)
    /\ cell[1].index < IntOf(layoutConfig.rows) * IntOf(layoutConfig.columns)
    /\ cell[1].index % IntOf(layoutConfig.columns) >= 1
    /\ JLt(Num(0), layoutConfig.cellSize)

\* C7: for index < 0 or index >= rows * columns, getCellPosition returns a point
\* strictly outside [0, width] x [0, height], at least one cellSize away from it,
\* for every layout the engine returns (those with cellSize 0 included).  Stated
\* over the layouts whose fields are all finite numbers.
Cex_C7_SentinelOutsideViewport ==
    (/\ cell # <<>>
     /\ \A f \in LayoutFields : IsFinite(f)
     /\ IndexOutOfGrid(Num(cell[1].index), layoutConfig)) =>
        LET pos  == cell[1].position
            size == layoutConfig.cellSize
        IN  /\ \/ JLt(pos.x, Num(0))
               \/ JLt(Num(width), pos.x)
               \/ JLt(pos.y, Num(0))
               \/ JLt(Num(height), pos.y)
            /\ \/ JLe(pos.x, JNeg(size))
               \/ JLe(JAdd(Num(width), size), pos.x)
               \/ JLe(pos.y, JNeg(size))
               \/ JLe(JAdd(Num(height), size), pos.y)

\* C8: with totalUnits <= 0 and a positive viewport computeGridLayout returns a
\* zero-size, zero-count layout: cellSize = 0, no cell capacity, every field finite.
Cex_C8_NoUnitsZeroLayout ==
    (renderConfig.totalMonths <= 0 /\ PositiveViewport) =>
        /\ \A f \in LayoutFields : IsFinite(f)
        /\ IsZero(layoutConfig.cellSize)
        /\ IsZero(JMul(layoutConfig.rows, layoutConfig.columns))

\* C9: with width <= 0 or height <= 0 computeGridLayout returns a zero-size layout
\* (cellSize = 0) and no field of it is negative, infinite or undefined.  Stated
\* for a proper unit count (totalMonths >= 1), so that only the viewport is degenerate.
Cex_C9_NoViewportZeroLayout ==
    (renderConfig.totalMonths >= 1 /\ (width <= 0 \/ height <= 0)) =>
        /\ \A f \in LayoutFields : IsFinite(f) /\ JLe(Num(0), f)
        /\ IsZero(layoutConfig.cellSize)

\* C11: for totalUnits >= 1 and a positive viewport the grid fits the usable
\* region, columns * cellSize <= 0.8 * width and rows * cellSize <= 0.8 * height
\* with equality on at least one axis, and it is centred:
\* offsetX = (width - columns * cellSize) / 2 >= 0.1 * width, and likewise offsetY.
Thm_C11_GridFitsAndIsCentred ==
    (renderConfig.totalMonths >= 1 /\ PositiveViewport) =>
        LET gridWidth  == JMul(layoutConfig.columns, layoutConfig.cellSize)
            gridHeight == JMul(layoutConfig.rows, layoutConfig.cellSize)
            usableW == Fin(1, 4 * width, 5)
            usableH == Fin(1, 4 * height, 5)
        IN  /\ JLe(gridWidth, usableW)
            /\ JLe(gridHeight, usableH)
            /\ JEq(gridWidth, usableW) \/ JEq(gridHeight, usableH)
            /\ JEq(layoutConfig.offsetX, JDiv(JSub(Num(width), gridWidth), Num(2)))
            /\ JEq(layoutConfig.offsetY, JDiv(JSub(Num(height), gridHeight), Num(2)))
            /\ JLe(Fin(1, width, 10), layoutConfig.offsetX)
            /\ JLe(Fin(1, height, 10), layoutConfig.offsetY)

\* A layout that fills the usable height and leaves room at the sides.
Wit_C11_RoomAtTheSides ==
    /\ renderConfig.totalMonths >= 1
    /\ PositiveViewport
    /\ JEq(JMul(layoutConfig.rows, layoutConfig.cellSize), Fin(1, 4 * height, 5))
    /\ JLt(JMul(layoutConfig.columns, layoutConfig.cellSize), Fin(1, 4 * width, 5))
    /\ JLt(Fin(1, width, 10), layoutConfig.offsetX)

\* C12: for totalUnits >= 1 and a positive viewport computeGridLayout equals
\* rows = max(1, floor(sqrt(totalUnits * 0.8 * height / (0.8 * width)))),
\* columns = ceil(totalUnits / rows), cellSize = min(0.8 * width / columns,
\* 0.8 * height / rows); 10 units on a 100 x 100 viewport give 3 rows, 4 columns
\* and cellSize 20.  The reference values are characterised in integers:
\* floor(sqrt(q)) is the r with r * r <= q < (r + 1) * (r + 1), ceil(q) the c
\* with c - 1 < q <= c.
Thm_C12_LayoutIsReferenceFormula ==
    (renderConfig.totalMonths >= 1 /\ PositiveViewport) =>
        /\ IsInt(layoutConfig.rows)
        /\ IsInt(layoutConfig.columns)
        /\ LET units == renderConfig.totalMonths
               r == IntOf(layoutConfig.rows)
               c == IntOf(layoutConfig.columns)
               byWidth  == Fin(1, 4 * width, 5 * c)
               byHeight == Fin(1, 4 * height, 5 * r)
           IN  /\ r >= 1
               /\ \/ r = 1 /\ units * 4 * height < 4 * (4 * width)
                  \/ /\ r * r * (4 * width) <= units * 4 * height
                     /\ units * 4 * height < (r + 1) * (r + 1) * (4 * width)
               /\ (c - 1) * r < units
               /\ units <= c * r
               /\ JLe(layoutConfig.cellSize, byWidth)
               /\ JLe(layoutConfig.cellSize, byHeight)
               /\ JEq(layoutConfig.cellSize, byWidth) \/ JEq(layoutConfig.cellSize, byHeight)
        /\ (renderConfig.totalMonths = 10 /\ width = 100 /\ height = 100) =>
               /\ layoutConfig.rows = Num(3)
               /\ layoutConfig.columns = Num(4)
               /\ layoutConfig.cellSize = Num(20)

\* The scenario: 10 units on a 100 x 100 viewport.
Wit_C12_TenUnitsOnHundredSquare ==
    /\ renderConfig.totalMonths = 10
    /\ width = 100
    /\ height = 100
    /\ layoutConfig.rows = Num(3)

(***************************************************************************)
(* Properties of the temporal derivation (checked under SpecTime)          *)
(***************************************************************************)
BirthInstant == GetTime(DateParse(dob))

\* C3: for a valid birth date d, as now advances from d onward, getFullMonthsLived(d)
\* is always >= 0 and never decreases from one reading to the next.
Thm_C3_MonthsLivedMonotone ==
    [][(/\ ~sampled
        /\ sampled'
        /\ IsCalendarDate(dob)
        /\ BirthInstant <= now - 1) =>
            (monthsLived >= 0 /\ monthsLived' >= monthsLived)]_vars

\* The clock has just passed into a month whose count is about to grow, more than
\* a year after a birth on the 31st.
Wit_C3_CountAboutToGrow ==
    /\ ~sampled
    /\ IsCalendarDate(dob)
    /\ dob.day = 31
    /\ BirthInstant <= now - 1
    /\ monthsLived >= 12
    /\ GetFullMonthsLived(dob) = monthsLived + 1

\* C4: for a valid birth date d and now >= d, N = getFullMonthsLived(d) satisfies
\* (d + N months) <= now < (d + (N + 1) months), the instants being those that
\* getCurrentMonthProgress builds with setMonth.
Cex_C4_NowInsideCurrentLifeMonth ==
    (sampled /\ IsCalendarDate(dob) /\ BirthInstant <= now) =>
        /\ GetTime(StartDate(dob, monthsLived)) <= now
        /\ now < GetTime(EndDate(dob, monthsLived))

\* C5: getCurrentMonthProgress(d) lies in [0, 1] for every birth date and instant,
\* and is 0 when now is exactly d + N months for the N of getFullMonthsLived.
Thm_C5_ProgressInUnitInterval ==
    sampled =>
        /\ JLe(Num(0), monthProgress)
        /\ JLe(monthProgress, Num(1))
        /\ (IsCalendarDate(dob) /\ now = GetTime(StartDate(dob, monthsLived))) =>
              IsZero(monthProgress)

\* now is the start of a life-month later than the first, and the progress read is 0.
Wit_C5_AtLifeMonthBoundary ==
    /\ sampled
    /\ IsCalendarDate(dob)
    /\ monthsLived >= 1
    /\ now = GetTime(StartDate(dob, monthsLived))
    /\ IsZero(monthProgress)

\* C10: for an unparseable birth-date string both functions return 0, and for a
\* birth date later than now both return 0 (never a negative number).
Thm_C10_ZeroForBadOrFutureBirth ==
    (sampled /\ (~IsCalendarDate(dob) \/ now < BirthInstant)) =>
        (monthsLived = 0 /\ IsZero(monthProgress))

\* A birth date months ahead of now: the month count is negative before the clamp.
Wit_C10_FutureBirth ==
    /\ sampled
    /\ IsCalendarDate(dob)
    /\ now < BirthInstant
    /\ ReturnVal(DateAt(now), DateParse(dob)) < -1
    /\ monthsLived = 0
    /\ IsZero(monthProgress)

\* C20: for every valid birth date, birth days 29, 30 and 31 included, and for
\* every month count getFullMonthsLived returns, the start instant (the birth
\* date moved on by that many months) is strictly earlier than the end instant
\* (one month more), so that the duration the progress is divided by is not zero.
Thm_C20_StartBeforeEnd ==
    IsCalendarDate(dob) =>
        /\ GetTime(StartDate(dob, monthsLived)) < GetTime(EndDate(dob, monthsLived))
        /\ GetTime(EndDate(dob, monthsLived)) - GetTime(StartDate(dob, monthsLived)) # 0

\* Born on January 31st, one month lived: the start instant has overflowed
\* February and lies in March, as the end instant does.
Wit_C20_StartOverflowsFebruary ==
    /\ sampled
    /\ tz = 0
    /\ dob = IsoString(2000, 1, 31)
    /\ monthsLived = 1
    /\ GetMonth(StartDate(dob, monthsLived)) = 2
    /\ GetMonth(EndDate(dob, monthsLived)) = 2

(***************************************************************************)
(* Text                                                                    *)
(*                                                                         *)
(* In the components and the persistence layer a JavaScript string is a    *)
(* string of the model.  The temporal functions take a birth date in the   *)
(* form [iso, year, month, day]; AsBirthDate reads that form off the text. *)
(***************************************************************************)
Digits == "0123456789"
CharAt(text, i) == SubSeq(text, i, i)
IsDigit(c) == \E v \in 0..9 : CharAt(Digits, v + 1) = c
DigitValue(c) == CHOOSE v \in 0..9 : CharAt(Digits, v + 1) = c
AllDigits(text) == \A i \in 1..Len(text) : IsDigit(CharAt(text, i))

RECURSIVE NatOf(_)
NatOf(text) ==
    IF text = "" THEN 0
    ELSE NatOf(SubSeq(text, 1, Len(text) - 1)) * 10 + DigitValue(CharAt(text, Len(text)))

RECURSIVE PowerOfTen(_)
PowerOfTen(n) == IF n = 0 THEN 1 ELSE 10 * PowerOfTen(n - 1)

\* A date-only text "YYYY-MM-DD", and the form read back from it.
IsDateOnlyText(text) ==
    /\ Len(text) = 10
    /\ CharAt(text, 5) = "-" /\ CharAt(text, 8) = "-"
    /\ AllDigits(SubSeq(text, 1, 4)) /\ AllDigits(SubSeq(text, 6, 7))
    /\ AllDigits(SubSeq(text, 9, 10))

AsBirthDate(text) ==
    IF IsDateOnlyText(text)
    THEN IsoString(NatOf(SubSeq(text, 1, 4)), NatOf(SubSeq(text, 6, 7)),
                   NatOf(SubSeq(text, 9, 10)))
    ELSE NotADate

\* Number(text) for an empty text and for signed decimal literals; any other
\* text in the model is not numeric.
UnsignedToNumber(sign, body) ==
    LET dots == {i \in 1..Len(body) : CharAt(body, i) = "."}
    IN  IF body = "" THEN NaN
        ELSE IF dots = {}
        THEN IF AllDigits(body) THEN Fin(sign, NatOf(body), 1) ELSE NaN
        ELSE LET at == CHOOSE i \in dots : TRUE
                 whole == SubSeq(body, 1, at - 1)
                 fraction == SubSeq(body, at + 1, Len(body))
             IN  IF Cardinality(dots) = 1 /\ AllDigits(whole) /\ AllDigits(fraction)
                    /\ Len(whole) + Len(fraction) > 0
                 THEN Fin(sign, NatOf(whole) * PowerOfTen(Len(fraction)) + NatOf(fraction),
                          PowerOfTen(Len(fraction)))
                 ELSE NaN

StringToNumber(text) ==
    IF text = "" THEN Num(0)
    ELSE IF CharAt(text, 1) = "-" THEN UnsignedToNumber(-1, SubSeq(text, 2, Len(text)))
    ELSE IF CharAt(text, 1) = "+" THEN UnsignedToNumber(1, SubSeq(text, 2, Len(text)))
    ELSE UnsignedToNumber(1, text)

\* text.substring(0, n)
SubstringFromStart(text, n) == SubSeq(text, 1, IF Len(text) < n THEN Len(text) ELSE n)

RECURSIVE Repeat(_, _)
Repeat(text, n) == IF n = 0 THEN "" ELSE text \o Repeat(text, n - 1)

(***************************************************************************)
(* JavaScript values and JSON                                              *)
(*                                                                         *)
(* A value is [t, s, n]: its type, and its text or its number.  A JSON     *)
(* document is [form, members]: for an object the members are its          *)
(* key/literal pairs in the order written, for any other document they are *)
(* empty.  The forms "empty" and "garbage" are the empty text and a text   *)
(* that is not JSON.                                                       *)
(***************************************************************************)
Undefined    == [t |-> "undefined", s |-> "", n |-> Num(0)]
Null         == [t |-> "null", s |-> "", n |-> Num(0)]
True         == [t |-> "boolean", s |-> "true", n |-> Num(1)]
StringOf(s)  == [t |-> "string", s |-> s, n |-> Num(0)]
NumberOf(n)  == [t |-> "number", s |-> "", n |-> n]

\* typeof value
TypeOf(value) == IF value.t = "null" THEN "object" ELSE value.t

Document(form, members) == [form |-> form, members |-> members]
ConfigKeys == <<"dob", "expectancy", "message", "theme", "shape">>

\* The marker of an absent property in a configuration object: a text no user
\* can enter stands for the value undefined.
Absent == "\\undefined"

(***************************************************************************)
(* Persistence layer                                                       *)
(*                                                                         *)
(* A configuration is [dob, expectancy, message, theme, shape] with texts  *)
(* for dob, message, theme and shape and a number for expectancy.  The     *)
(* storage item is [state, text]: "missing" when getItem returns null,     *)
(* "stored" with the JSON document it holds, "denied" when the host        *)
(* refuses access to localStorage.                                         *)
(***************************************************************************)
VALID_THEMES_PREFERENCES == {"light", "dark", "system"}
VALID_SHAPES == {"square", "circle", "heart"}

\* isShape(value), isThemePreference(value)
IsShape(value) == value.t = "string" /\ value.s \in VALID_SHAPES
IsThemePreference(value) == value.t = "string" /\ value.s \in VALID_THEMES_PREFERENCES

Stored(document) == [state |-> "stored", text |-> document]
Denied == [state |-> "denied", text |-> Document("empty", <<>>)]

\* The value of a property of a configuration object.
TextValue(text) == IF text = Absent THEN Undefined ELSE StringOf(text)
PropertyValue(config, key) ==
    IF key = "dob" THEN TextValue(config.dob)
    ELSE IF key = "expectancy" THEN NumberOf(config.expectancy)
    ELSE IF key = "message" THEN TextValue(config.message)
    ELSE IF key = "theme" THEN TextValue(config.theme)
    ELSE TextValue(config.shape)

\* JSON.stringify(config): a property whose value is undefined is left out, a
\* number that is not finite is written as null.
JsonLiteral(value) ==
    IF value.t = "number" /\ ~IsFinite(value.n) THEN Null ELSE value

JsonStringify(config) ==
    LET all == [i \in 1..Len(ConfigKeys) |->
                   [key |-> ConfigKeys[i],
                    lit |-> JsonLiteral(PropertyValue(config, ConfigKeys[i]))]]
    IN  Document("object", SelectSeq(all, LAMBDA m : m.lit.t # "undefined"))

\* JSON.parse(text): [threw, value]; an array and an object are both of type
\* "object"; the number document is 42 and the string document is "text".
JsonParse(document) ==
    IF document.form \in {"empty", "garbage"} THEN [threw |-> TRUE, value |-> Undefined]
    ELSE [threw |-> FALSE,
          value |-> IF document.form = "null" THEN Null
                    ELSE IF document.form = "true" THEN True
                    ELSE IF document.form = "number" THEN NumberOf(Num(42))
                    ELSE IF document.form = "string" THEN StringOf("text")
                    ELSE [t |-> "object", s |-> document.form, n |-> Num(0)]]

\* safeObject[key] after const safeObject = { ...parsedData }: the literal
\* written last under that key, undefined when there is none.
SafeObjectProperty(document, key) ==
    LET at == {i \in 1..Len(document.members) : document.members[i].key = key}
    IN  IF document.form # "object" \/ at = {} THEN Undefined
        ELSE document.members[CHOOSE i \in at : \A j \in at : j <= i].lit

\* !value
IsFalsy(value) ==
    \/ value.t \in {"undefined", "null"}
    \/ value.t = "string" /\ value.s = ""
    \/ value.t = "number" /\ (IsNaN(value.n) \/ IsZero(value.n))
    \/ value.t = "boolean" /\ value.s = "false"

\* A variant that accepts any text as a theme.
StoredThemeUnchecked(document) ==
    LET theme == SafeObjectProperty(document, "theme")
    IN  IF theme.t = "string" THEN theme.s ELSE DefaultConfig.theme

\* theme: isThemePreference(safeObject.theme) ? safeObject.theme : defaultConfig.theme
StoredTheme(document) ==
    LET theme == SafeObjectProperty(document, "theme")
    IN  IF IsThemePreference(theme) THEN theme.s ELSE DefaultConfig.theme

\* The try block of loadConfig: [threw, config].
LoadAttempt(item) ==
    LET parsed == JsonParse(item.text)
        storedDob == SafeObjectProperty(item.text, "dob")
        storedExpectancy == SafeObjectProperty(item.text, "expectancy")
        storedMessage == SafeObjectProperty(item.text, "message")
        storedShape == SafeObjectProperty(item.text, "shape")
    IN  IF item.state = "denied" THEN [threw |-> TRUE, config |-> DefaultConfig]
        ELSE IF item.state = "missing" \/ item.text.form = "empty"
        THEN [threw |-> TRUE, config |-> DefaultConfig]
        ELSE IF parsed.threw THEN [threw |-> TRUE, config |-> DefaultConfig]
        ELSE IF IsFalsy(parsed.value) \/ TypeOf(parsed.value) # "object"
        THEN [threw |-> TRUE, config |-> DefaultConfig]
        ELSE [threw |-> FALSE,
              config |->
                 [dob |-> IF TypeOf(storedDob) = "string" THEN storedDob.s ELSE DefaultConfig.dob,
                  expectancy |-> IF TypeOf(storedExpectancy) = "number" THEN storedExpectancy.n
                                 ELSE DefaultConfig.expectancy,
                  message |-> IF TypeOf(storedMessage) = "string" THEN storedMessage.s
                              ELSE DefaultConfig.message,
                  theme |-> StoredTheme(item.text),
                  shape |-> IF IsShape(storedShape) THEN storedShape.s ELSE DefaultConfig.shape]]

\* loadConfig(): the catch block returns a copy of defaultConfig.
LoadConfig(item) ==
    LET attempt == LoadAttempt(item)
    IN  IF attempt.threw THEN DefaultConfig ELSE attempt.config

\* saveConfig(config): the item afterwards; setItem may throw (quota exceeded,
\* access denied), which is caught and leaves the item as it was.
SaveConfig(item, config, accepted) ==
    IF accepted /\ item.state # "denied" THEN Stored(JsonStringify(config)) ELSE item

(***************************************************************************)
(* Persistence layer under loads and saves                                 *)
(*                                                                         *)
(* The App reads the item once, when it mounts (useState(loadConfig())),   *)
(* and writes it whenever it takes a new configuration.  `app.last` names  *)
(* the call made last; `userConfig` is the configuration that call         *)
(* returned or was given.                                                  *)
(***************************************************************************)
\* Literals a stored object may hold under each key (undefined: no such key).
StoredDobs         == {Undefined, StringOf("2000-01-31"), NumberOf(Num(5))}
StoredExpectancies == {Undefined, NumberOf(Num(90)), StringOf("90"), Null}
StoredMessages     == {Undefined, StringOf(""), NumberOf(Num(1))}
StoredThemes       == {Undefined, StringOf("system"), StringOf("blue"), NumberOf(Num(1))}
StoredShapes       == {Undefined, StringOf("heart"), StringOf("triangle")}

ObjectDocument(literals) ==
    LET all == [i \in 1..Len(ConfigKeys) |-> [key |-> ConfigKeys[i], lit |-> literals[i]]]
    IN  Document("object", SelectSeq(all, LAMBDA m : m.lit.t # "undefined"))

\* What the item may hold when the App mounts: nothing, no access, an empty
\* text, a text that is not JSON, JSON that is no object, an array, an object
\* that names a key twice, and objects with any of the literals above.
StoredItems ==
    {NoItem, Denied}
        \cup {Stored(Document(form, <<>>)) :
                 form \in {"empty", "garbage", "null", "true", "number", "string", "array"}}
        \cup {Stored(Document("object", <<[key |-> "theme", lit |-> StringOf("blue")],
                                          [key |-> "theme", lit |-> StringOf("dark")]>>))}
        \cup {Stored(ObjectDocument(<<d, e, m, t, s>>)) :
                 d \in StoredDobs, e \in StoredExpectancies, m \in StoredMessages,
                 t \in StoredThemes, s \in StoredShapes}

\* Configurations handed to saveConfig: valid ones, and two that are not (a
\* shape that is undefined, an expectancy that is not finite).
ValidConfigs ==
    [dob : {"2000-01-31"}, expectancy : {Num(1), Fin(1, 3, 2)}, message : {"hi"},
     theme : VALID_THEMES_PREFERENCES, shape : {"heart"}]
SavedConfigs ==
    ValidConfigs
        \cup {[DefaultConfig EXCEPT !.shape = Absent],
              [DefaultConfig EXCEPT !.expectancy = Infinity(1)]}

InitStore ==
    /\ TimeIdle
    /\ GridIdle
    /\ PaintIdle
    /\ prefersDark = FALSE
    /\ storage \in StoredItems
    /\ userConfig = LoadConfig(storage)
    /\ app = [mounted |-> TRUE, last |-> "loadConfig"]
    /\ drawer = Unmounted
    /\ surface = Unmounted
    /\ timer = Unmounted

\* The App mounts again (a new tab, a restart): useState(loadConfig())
Mount ==
    /\ userConfig' = LoadConfig(storage)
    /\ app' = [mounted |-> TRUE, last |-> "loadConfig"]
    /\ UNCHANGED <<storage, prefersDark, drawer, surface, timer>>
    /\ UNCHANGED <<envVars, timeVars, gridVars, paintVars>>

\* setUserConfig(config); saveConfig(config)
Save(config, accepted) ==
    /\ userConfig' = config
    /\ storage' = SaveConfig(storage, config, accepted)
    /\ app' = [mounted |-> TRUE,
               last |-> IF storage' = Stored(JsonStringify(config))
                        THEN "saveConfig" ELSE "saveConfig failed"]
    /\ UNCHANGED <<prefersDark, drawer, surface, timer>>
    /\ UNCHANGED <<envVars, timeVars, gridVars, paintVars>>

NextStore ==
    \/ Mount
    \/ \E config \in SavedConfigs, accepted \in BOOLEAN : Save(config, accepted)

SpecStore == InitStore /\ [][NextStore]_vars

\* The item holds a JSON object (or array) that loadConfig reads field by field.
HoldsObject ==
    /\ storage.state = "stored"
    /\ storage.text.form \in {"object", "array"}

\* The literal stored last under a key, as a set of at most one literal.
StoredUnder(key) ==
    {storage.text.members[i].lit : i \in
        {i \in 1..Len(storage.text.members) :
            /\ storage.text.members[i].key = key
            /\ \A j \in (i + 1)..Len(storage.text.members) :
                  storage.text.members[j].key # key}}

\* A complete configuration, every field of the type UserConfig declares.
IsCompleteConfig(config) ==
    /\ DOMAIN config = {"dob", "expectancy", "message", "theme", "shape"}
    /\ config.dob # Absent
    /\ config.message # Absent
    /\ config.expectancy.k \in {"fin", "inf", "nan"}
    /\ config.theme \in {"light", "dark", "system"}
    /\ config.shape \in {"square", "circle", "heart"}

\* C26: loadConfig returns a complete UserConfig (it never throws): a copy of
\* defaultConfig when the item is missing, empty, not JSON or not an object,
\* and otherwise each field from storage if it has the expected type (for theme
\* and shape an allowed value) and from defaultConfig if not; after a
\* successful saveConfig(c) of a valid c, loadConfig returns a configuration
\* equal to c.
Thm_C26_LoadIsTotalAndRoundTrips ==
    /\ app.last = "loadConfig" =>
          /\ IsCompleteConfig(userConfig)
          /\ ~HoldsObject => userConfig = DefaultConfig
          /\ HoldsObject =>
                LET texts(key) == {v \in StoredUnder(key) : v.t = "string"}
                    numbers(key) == {v \in StoredUnder(key) : v.t = "number"}
                    themes == {v \in texts("theme") : v.s \in {"light", "dark", "system"}}
                    shapes == {v \in texts("shape") : v.s \in {"square", "circle", "heart"}}
                IN  /\ IF texts("dob") = {} THEN userConfig.dob = "1995-01-01"
                       ELSE \A v \in texts("dob") : userConfig.dob = v.s
                    /\ IF numbers("expectancy") = {} THEN userConfig.expectancy = Num(80)
                       ELSE \A v \in numbers("expectancy") : userConfig.expectancy = v.n
                    /\ IF texts("message") = {}
                       THEN userConfig.message = "Your time, your story."
                       ELSE \A v \in texts("message") : userConfig.message = v.s
                    /\ IF themes = {} THEN userConfig.theme = "light"
                       ELSE \A v \in themes : userConfig.theme = v.s
                    /\ IF shapes = {} THEN userConfig.shape = "square"
                       ELSE \A v \in shapes : userConfig.shape = v.s
    /\ (app.last = "saveConfig" /\ userConfig \in ValidConfigs) =>
          LoadConfig(storage) = userConfig

\* A stored object whose theme is not an allowed value and whose expectancy is a
\* text: both fields come from defaultConfig, the others from storage.
Wit_C26_BadThemeAndTextExpectancy ==
    /\ app.last = "loadConfig"
    /\ StoredUnder("theme") = {StringOf("blue")}
    /\ StoredUnder("expectancy") = {StringOf("90")}
    /\ StoredUnder("shape") = {StringOf("heart")}
    /\ userConfig.theme = "light"
    /\ userConfig.expectancy = Num(80)
    /\ userConfig.shape = "heart"

(***************************************************************************)
(* App component                                                           *)
(*                                                                         *)
(* React calls App to render whenever one of its states was set, and runs  *)
(* the effects of a render after the render has been committed: the        *)
(* cleanup of an effect whose dependencies changed, then the effect.       *)
(* Events of the host (a change of the prefers-dark signal, a call of      *)
(* window.livelyPropertyListener) may arrive between a render and its      *)
(* effects.  `app` holds                                                   *)
(*   mounted, isLively     the component is mounted; the build mode        *)
(*   rendered, dirty       App has rendered; a state was set since         *)
(*   sync                  ... by an event of the user or the media query  *)
(*   flushed               the effects of the last render have run         *)
(*   renderedTheme         userConfig.theme as the last render saw it      *)
(*   effectTheme           the theme the listener effect ran with last     *)
(*   themeListeners        change listeners registered on the media query  *)
(*   livelyHook            window.livelyPropertyListener is defined        *)
(*   safeConfig, banner    what the last render handed to the builder,     *)
(*   timerDob,             to CountdownTimer, and whether it showed the    *)
(*   timerExpectancy       invalid-date banner                             *)
(***************************************************************************)
\* new Date(`${userConfig.dob}T00:00:00`): local midnight of the date
ParseLocalMidnight(text) ==
    Bind(AsBirthDate(text), LAMBDA birth :
        IF IsCalendarDate(birth)
        THEN DateAt(MakeDay(birth.year, birth.month - 1, birth.day) * 2 - tz)
        ELSE InvalidDate)

\* const isInvalidDate = isNaN(parsedDate.getTime())
IsInvalidDate(config) == ParseLocalMidnight(config.dob).nan

\* A variant that hands the stored birth date on whether it parses or not.
SafeDobUnchecked(config) == config.dob

\* const safeDob = isInvalidDate ? '1995-01-01' : userConfig.dob
SafeDob(config) == IF IsInvalidDate(config) THEN "1995-01-01" ELSE config.dob

\* const safeConfig = { ...userConfig, dob: safeDob }
SafeConfig(config) == [config EXCEPT !.dob = SafeDob(config)]

\* The configuration in the form the builder takes it: the birth date read off
\* its text, the expectancy as a whole number.
BuilderInput(config) ==
    [dob |-> AsBirthDate(config.dob), expectancy |-> IntOf(config.expectancy),
     message |-> config.message, theme |-> config.theme, shape |-> config.shape]

\* Number(val)
ToNumber(val) ==
    IF val.t = "number" THEN val.n
    ELSE IF val.t = "string" THEN StringToNumber(val.s)
    ELSE IF val.t = "boolean" THEN val.n
    ELSE IF val.t = "null" THEN Num(0)
    ELSE NaN

\* array[index] for a number index: an element for 0, 1, ..., undefined otherwise.
ElementAt(array, index) ==
    IF IsFinite(index) /\ index.d = 1 /\ (index.s = 1 \/ index.n = 0) /\ index.n < Len(array)
    THEN array[index.n + 1]
    ELSE Absent

\* The updater of window.livelyPropertyListener(name, val)
LivelyUpdate(prev, name, val) ==
    IF name = "dob"
    THEN IF val.t = "string" THEN [prev EXCEPT !.dob = val.s] ELSE prev
    ELSE IF name = "expectancy"
    THEN LET exp == ToNumber(val)
         IN  IF ~IsNaN(exp)
             THEN [prev EXCEPT !.expectancy = MathMax(Num(1), MathMin(Num(150), exp))]
             ELSE prev
    ELSE IF name = "message"
    THEN IF val.t = "string"
         THEN [prev EXCEPT !.message = SubstringFromStart(val.s, 72)]
         ELSE prev
    ELSE IF name = "theme"
    THEN LET themeIndex == ToNumber(val)
         IN  IF JEq(themeIndex, Num(0)) \/ JEq(themeIndex, Num(1))
             THEN [prev EXCEPT !.theme = ElementAt(<<"light", "dark">>, themeIndex)]
             ELSE prev
    ELSE IF name = "shape"
    THEN LET shapeIndex == ToNumber(val)
         IN  IF JLe(Num(0), shapeIndex) /\ JLe(shapeIndex, Num(2))
             THEN [prev EXCEPT !.shape =
                      ElementAt(<<"square", "circle", "heart">>, shapeIndex)]
             ELSE prev
    ELSE prev

(***************************************************************************)
(* The App from its mount to its unmount (SpecApp)                         *)
(***************************************************************************)
AppInstant == 200   \* the instant of every render, in half days from the epoch

\* What the item holds when the App mounts: nothing, no access, or a
\* configuration saved earlier whose birth date does not parse.
AppStoredConfigs ==
    {[dob |-> "abc", expectancy |-> Num(150), message |-> Repeat("m", 72),
      theme |-> "system", shape |-> "heart"]}
AppItems == {NoItem, Denied} \cup {Stored(JsonStringify(c)) : c \in AppStoredConfigs}

\* Configurations the settings form submits.
FormConfigs ==
    [dob : {"2000-01-31", "1995-01-01"}, expectancy : {Num(1)}, message : {"hi"},
     theme : VALID_THEMES_PREFERENCES, shape : {"circle"}]

\* Calls the Lively host makes: for every property a value the hook takes
\* and one it rejects, and a property it does not know.
LivelyCalls ==
    {<<"dob", StringOf("abc")>>, <<"dob", StringOf("1995-01-01")>>,
     <<"dob", NumberOf(Fin(1, 1, 2))>>,
     <<"expectancy", NumberOf(Num(200))>>, <<"expectancy", StringOf("80")>>,
     <<"expectancy", StringOf("abc")>>,
     <<"message", StringOf(Repeat("m", 73))>>, <<"message", NumberOf(Num(0))>>,
     <<"theme", NumberOf(Num(0))>>, <<"theme", StringOf("1")>>,
     <<"theme", NumberOf(Num(2))>>,
     <<"shape", NumberOf(Num(0))>>, <<"shape", NumberOf(Num(2))>>,
     <<"shape", NumberOf(Fin(1, 1, 2))>>, <<"shape", NumberOf(Num(-1))>>,
     <<"shape", NumberOf(Num(200))>>,
     <<"volume", NumberOf(Fin(1, 1, 2))>>}

InitApp ==
    /\ now = AppInstant
    /\ tz = 0
    /\ dob = NotADate
    /\ sampled = TRUE
    /\ monthsLived = 0
    /\ monthProgress = Num(0)
    /\ GridIdle
    /\ PaintIdle
    /\ prefersDark \in BOOLEAN
    /\ storage \in AppItems
    /\ userConfig = LoadConfig(storage)
    /\ \E lively \in BOOLEAN :
          app = [mounted |-> TRUE, isLively |-> lively, rendered |-> FALSE,
                 dirty |-> TRUE, sync |-> FALSE, flushed |-> TRUE,
                 renderedTheme |-> "none", effectTheme |-> "none",
                 themeListeners |-> 0, livelyHook |-> FALSE,
                 safeConfig |-> DefaultConfig, banner |-> FALSE,
                 timerDob |-> "", timerExpectancy |-> Num(0)]
    /\ drawer = Unmounted
    /\ surface = Unmounted
    /\ timer = Unmounted

\* The effects of the last render run: the listener effect of lines 42-57
\* when userConfig.theme changed (cleanup first), the hook effect of lines
\* 60-118 after the first render only.
RunEffects(a) ==
    LET changed == a.effectTheme # a.renderedTheme
        removed == IF changed /\ a.effectTheme = "system" THEN 1 ELSE 0
        added   == IF changed /\ a.renderedTheme = "system" THEN 1 ELSE 0
    IN  [a EXCEPT !.flushed = TRUE,
                  !.effectTheme = a.renderedTheme,
                  !.themeListeners = a.themeListeners - removed + added,
                  !.livelyHook = IF a.effectTheme = "none" THEN a.isLively
                                 ELSE a.livelyHook]

\* React calls App: lines 120-133 and the JSX of lines 143-200.  A render
\* caused by an event of the user or of the media query runs its effects
\* before it returns; the effects of any other render run later.
AppRender ==
    /\ app.mounted /\ app.dirty /\ app.flushed
    /\ renderConfig' = BuildRenderConfig(BuilderInput(SafeConfig(userConfig)))
    /\ LET rendered ==
               [app EXCEPT !.rendered = TRUE, !.dirty = FALSE, !.sync = FALSE,
                           !.flushed = FALSE,
                           !.renderedTheme = userConfig.theme,
                           !.safeConfig = SafeConfig(userConfig),
                           !.banner = app.isLively /\ IsInvalidDate(userConfig),
                           !.timerDob = SafeConfig(userConfig).dob,
                           !.timerExpectancy = userConfig.expectancy]
       IN  app' = IF app.sync THEN RunEffects(rendered) ELSE rendered
    /\ UNCHANGED <<userConfig, prefersDark, storage, drawer, surface, timer>>
    /\ UNCHANGED <<envVars, timeVars, paintVars, width, height, layoutConfig, cell>>

\* The effects of a render that left them pending run.
FlushEffects ==
    /\ app.mounted /\ ~app.flushed
    /\ app' = RunEffects(app)
    /\ UNCHANGED <<userConfig, prefersDark, storage, drawer, surface, timer>>
    /\ UNCHANGED <<envVars, timeVars, gridVars, paintVars>>

\* The prefers-dark signal changes; every registered handleChange runs
\* setSystemThemeTick.
MediaChange ==
    /\ prefersDark' = ~prefersDark
    /\ app' = IF app.themeListeners > 0
               THEN [app EXCEPT !.dirty = TRUE, !.sync = TRUE]
               ELSE app
    /\ UNCHANGED <<userConfig, storage, drawer, surface, timer>>
    /\ UNCHANGED <<envVars, timeVars, gridVars, paintVars>>

\* The host calls window.livelyPropertyListener(name, val).
LivelyProperty(name, val) ==
    /\ app.livelyHook
    /\ userConfig' = LivelyUpdate(userConfig, name, val)
    /\ storage' = SaveConfig(storage, userConfig', TRUE)
    /\ app' = [app EXCEPT !.dirty = TRUE]
    /\ UNCHANGED <<prefersDark, drawer, surface, timer>>
    /\ UNCHANGED <<envVars, timeVars, gridVars, paintVars>>

\* handleConfigUpdate(newConfig), passed to the settings drawer as onSave
HandleConfigUpdate(newConfig) ==
    /\ app.mounted /\ app.rendered /\ ~app.isLively
    /\ userConfig' = newConfig
    /\ storage' = SaveConfig(storage, newConfig, TRUE)
    /\ app' = [app EXCEPT !.dirty = TRUE, !.sync = TRUE]
    /\ UNCHANGED <<prefersDark, drawer, surface, timer>>
    /\ UNCHANGED <<envVars, timeVars, gridVars, paintVars>>

\* The App unmounts: the cleanups of the effects that ran.
UnmountApp ==
    /\ app.mounted
    /\ app' = [app EXCEPT !.mounted = FALSE, !.dirty = FALSE, !.sync = FALSE,
                          !.flushed = TRUE,
                          !.themeListeners =
                              IF app.effectTheme = "system"
                              THEN app.themeListeners - 1 ELSE app.themeListeners,
                          !.effectTheme = "none",
                          !.livelyHook = FALSE]
    /\ UNCHANGED <<userConfig, prefersDark, storage, drawer, surface, timer>>
    /\ UNCHANGED <<envVars, timeVars, gridVars, paintVars>>

NextApp ==
    \/ AppRender
    \/ FlushEffects
    \/ MediaChange
    \/ \E call \in LivelyCalls : LivelyProperty(call[1], call[2])
    \/ \E newConfig \in FormConfigs : HandleConfigUpdate(newConfig)
    \/ UnmountApp

SpecApp == InitApp /\ [][NextApp]_vars

\* Calls enough to let the Lively host move the preference off 'system' and
\* the birth date off a valid one.
ThemeCalls ==
    {<<"theme", NumberOf(Num(0))>>, <<"theme", StringOf("1")>>, <<"dob", StringOf("abc")>>}

NextAppLive ==
    \/ AppRender
    \/ FlushEffects
    \/ MediaChange
    \/ \E call \in ThemeCalls : LivelyProperty(call[1], call[2])
    \/ \E newConfig \in FormConfigs : HandleConfigUpdate(newConfig)
    \/ UnmountApp

\* React renders a component whose state was set and runs the effects a
\* render left pending.  AppRender is enabled exactly while RenderDue holds
\* and every AppRender step ends it, so that []<>~RenderDue is
\* WF_vars(AppRender), written without the builder in it.
RenderDue == app.mounted /\ app.dirty /\ app.flushed

SpecAppLive ==
    InitApp /\ [][NextAppLive]_vars /\ []<>~RenderDue /\ WF_vars(FlushEffects)

(***************************************************************************)
(* Properties of the App (checked under SpecApp)                           *)
(***************************************************************************)
\* A step in which App rendered.
AppRendered == app.mounted /\ app.dirty /\ app'.mounted /\ ~app'.dirty

\* The birth date a render must use for the configuration it reads.
DobToUse(config) == IF IsInvalidDate(config) THEN "1995-01-01" ELSE config.dob

\* C24: whenever App renders, a stored birth date that does not parse is
\* replaced by '1995-01-01' in what goes to buildRenderConfig and to
\* CountdownTimer while userConfig keeps the stored text; a birth date that
\* parses is used as it is; and the invalid-date banner shows exactly when
\* the date is invalid and the build is the Lively one.
Thm_C24_InvalidDobFallsBackAtRender ==
    [][AppRendered =>
          /\ userConfig' = userConfig
          /\ app'.safeConfig = [userConfig EXCEPT !.dob = DobToUse(userConfig)]
          /\ renderConfig' = BuildRenderConfig(BuilderInput(app'.safeConfig))
          /\ app'.timerDob = DobToUse(userConfig)
          /\ app'.timerExpectancy = userConfig.expectancy
          /\ app'.banner = (app.isLively /\ IsInvalidDate(userConfig))]_vars

\* The Lively build rendered a configuration whose birth date is 'abc': the
\* banner shows, the timer counts from 1995-01-01 and the grid has the 63
\* months lived since then.
Wit_C24_LivelyBannerOverFallback ==
    /\ app.mounted /\ app.rendered /\ ~app.dirty /\ app.isLively
    /\ userConfig.dob = "abc"
    /\ app.banner
    /\ app.timerDob = "1995-01-01"
    /\ renderConfig.fullMonthsLived = 63


\* A configuration whose fields are valid.
IsValidConfig(config) ==
    /\ JLe(Num(1), config.expectancy) /\ JLe(config.expectancy, Num(150))
    /\ config.message # Absent /\ Len(config.message) <= 72
    /\ config.theme \in {"light", "dark", "system"}
    /\ config.shape \in {"square", "circle", "heart"}

\* A call the hook does not act on: a name it does not know, or a value it
\* rejects for the property named.
IsRejectedCall(name, val) ==
    \/ name \notin {"dob", "expectancy", "message", "theme", "shape"}
    \/ name \in {"dob", "message"} /\ val.t # "string"
    \/ name = "expectancy" /\ IsNaN(ToNumber(val))
    \/ name = "theme" /\ ~JEq(ToNumber(val), Num(0)) /\ ~JEq(ToNumber(val), Num(1))
    \/ name = "shape" /\ ~(JLe(Num(0), ToNumber(val)) /\ JLe(ToNumber(val), Num(2)))

\* C25: in the Lively build, where the configuration starts valid and only
\* calls of livelyPropertyListener change it, userConfig is valid after every
\* call (expectancy within [1,150], message of at most 72 characters, theme
\* one of light/dark/system, shape one of square/circle/heart), and a call
\* with an unknown name or a rejected value leaves every field as it was.
Cex_C25_LivelyKeepsConfigValid ==
    (app.mounted /\ app.isLively) =>
        /\ IsValidConfig(userConfig)
        /\ \A call \in LivelyCalls :
              IsRejectedCall(call[1], call[2]) =>
                  LivelyUpdate(userConfig, call[1], call[2]) = userConfig


\* The theme mode on screen is not the one the host signals.
ThemeStale ==
    /\ app.mounted /\ app.rendered
    /\ userConfig.theme = "system"
    /\ renderConfig.themeMode # (IF prefersDark THEN "dark" ELSE "light")

\* C21: while the preference is 'system', a render configuration whose
\* theme mode differs from the host's prefers-dark signal is eventually
\* rebuilt to match it; the change listener is registered only while the
\* App is mounted with the preference 'system', and never twice.
Cex_C21_SystemThemeFollowsSignal ==
    /\ [](app.themeListeners <= 1)
    /\ [](app.themeListeners = 1 => app.mounted /\ app.effectTheme = "system")
    /\ (ThemeStale ~> ~ThemeStale)


(***************************************************************************)
(* Settings drawer (SpecDrawer)                                            *)
(*                                                                         *)
(* The browser build renders SettingsOverlay with currentConfig =          *)
(* userConfig and onSave = handleConfigUpdate.  `drawer` holds isOpen and  *)
(* formData, the handler that ran last, and the number of onSave calls     *)
(* made.  The drawer is a div that is moved off the screen while isOpen is *)
(* false: its form, its inputs and its close button stay in the document   *)
(* and keep taking keyboard focus, so their handlers run whether the       *)
(* drawer is open or not.  A click, a change or a submit is an event of    *)
(* the user: the render it causes is over, and currentConfig is the new    *)
(* userConfig, before the next event.                                      *)
(***************************************************************************)
MaxSaves == 2   \* onSave calls counted in one behaviour

\* Edits of the form's fields: the name of the input and its value text.
FieldEdits ==
    {<<"dob", "">>, <<"dob", "2000-01-31">>, <<"expectancy", "90">>,
     <<"message", "hi">>, <<"theme", "dark">>, <<"shape", "heart">>}

\* [name]: name === 'expectancy' ? Number(value) : value
EditedForm(prev, name, value) ==
    IF name = "expectancy" THEN [prev EXCEPT !.expectancy = StringToNumber(value)]
    ELSE [prev EXCEPT ![name] = value]

\* The browser submits a form whose required fields are filled and whose
\* number lies between min and max.
FormIsValid(form) ==
    /\ form.dob # ""
    /\ JLe(Num(1), form.expectancy) /\ JLe(form.expectancy, Num(150))

InitDrawer ==
    /\ TimeIdle
    /\ GridIdle
    /\ PaintIdle
    /\ prefersDark = FALSE
    /\ storage = NoItem
    /\ userConfig = LoadConfig(storage)
    /\ app = [mounted |-> TRUE, last |-> "loadConfig"]
    /\ drawer = [mounted |-> TRUE, isOpen |-> FALSE, formData |-> userConfig,
                 last |-> "mount", saves |-> 0]
    /\ surface = Unmounted
    /\ timer = Unmounted

\* onClick={() => setIsOpen(true)}
OpenDrawer ==
    /\ drawer' = [drawer EXCEPT !.isOpen = TRUE, !.last = "open"]
    /\ UNCHANGED <<userConfig, prefersDark, app, storage, surface, timer>>
    /\ UNCHANGED <<envVars, timeVars, gridVars, paintVars>>

\* handleChange(e) with e.target = {name, value}
HandleChange(name, value) ==
    /\ drawer' = [drawer EXCEPT !.formData = EditedForm(drawer.formData, name, value),
                                !.last = "handleChange"]
    /\ UNCHANGED <<userConfig, prefersDark, app, storage, surface, timer>>
    /\ UNCHANGED <<envVars, timeVars, gridVars, paintVars>>

\* handleSubmit(e): onSave(formData), which is handleConfigUpdate, then
\* setIsOpen(false)
HandleSubmit ==
    /\ FormIsValid(drawer.formData)
    /\ drawer.saves < MaxSaves
    /\ userConfig' = drawer.formData
    /\ storage' = SaveConfig(storage, drawer.formData, TRUE)
    /\ app' = [mounted |-> TRUE, last |-> "saveConfig"]
    /\ drawer' = [drawer EXCEPT !.isOpen = FALSE, !.last = "handleSubmit",
                                !.saves = drawer.saves + 1]
    /\ UNCHANGED <<prefersDark, surface, timer>>
    /\ UNCHANGED <<envVars, timeVars, gridVars, paintVars>>

\* handleClose(): setFormData(currentConfig); setIsOpen(false).  The
\* backdrop is rendered only while the drawer is open, the close button
\* always.
HandleClose ==
    /\ drawer' = [drawer EXCEPT !.formData = userConfig, !.isOpen = FALSE,
                                !.last = "handleClose"]
    /\ UNCHANGED <<userConfig, prefersDark, app, storage, surface, timer>>
    /\ UNCHANGED <<envVars, timeVars, gridVars, paintVars>>

NextDrawer ==
    \/ OpenDrawer
    \/ \E edit \in FieldEdits : HandleChange(edit[1], edit[2])
    \/ HandleSubmit
    \/ HandleClose

SpecDrawer == InitDrawer /\ [][NextDrawer]_vars

(***************************************************************************)
(* Properties of the settings drawer (checked under SpecDrawer)            *)
(***************************************************************************)
\* C27: an edit of a field changes formData and not the App's
\* configuration; onSave is called only by a submission, once, with the
\* formData of that moment, and the drawer is closed afterwards; a close
\* resets formData to the App's configuration and calls nothing; and
\* whenever the drawer is closed, formData equals the App's configuration.
Cex_C27_EditsStayLocalAndClosedFormIsCurrent ==
    /\ [][/\ drawer'.last = "handleChange" => userConfig' = userConfig
          /\ drawer'.saves # drawer.saves =>
                /\ drawer'.last = "handleSubmit"
                /\ drawer'.saves = drawer.saves + 1
                /\ userConfig' = drawer.formData
                /\ ~drawer'.isOpen
          /\ drawer'.last # "handleSubmit" =>
                userConfig' = userConfig /\ storage' = storage
          /\ drawer'.last = "handleClose" =>
                drawer'.formData = userConfig /\ ~drawer'.isOpen]_vars
    /\ [](~drawer.isOpen => drawer.formData = userConfig)


(***************************************************************************)
(* LifeCanvas (SpecCanvas)                                                 *)
(*                                                                         *)
(* The App hands LifeCanvas a new renderConfig object on every render, so  *)
(* the effect of lines 68-91 runs again after every render of the App:     *)
(* its cleanup removes the resize listener of the run before, then the     *)
(* effect repaints and registers a listener that closes over its own       *)
(* renderConfig.  As for the App, the effect of a render caused by an      *)
(* event of the user runs before the render returns, and the effect of     *)
(* any other render (the first, one caused by a host call) runs later;     *)
(* resize events may arrive in between.  `surface` holds                   *)
(*   mounted, pending     the component is mounted; an effect is pending   *)
(*   effectRan,           the effect has run; the renderConfig it ran with *)
(*   effectConfig         (the one its listener repaints with)             *)
(*   listeners            resize listeners of the component on window      *)
(*   repaints, painted    calls of repaintCanvas made; the arguments of    *)
(*                        the last (the pass itself is SpecPaint's)        *)
(*   last                 what happened last                               *)
(* renderConfig is the prop of the last render, width and height are       *)
(* window.innerWidth and window.innerHeight.                               *)
(***************************************************************************)
MaxRepaints == 3   \* calls of repaintCanvas in one behaviour

CanvasConfigs ==
    {c \in PaintConfigs : /\ c.totalMonths = 2 /\ c.fullMonthsLived = 1
                          /\ c.currentMonthProgress = Num(0) /\ c.shape = "square"}
CanvasViewports == {<<1, 2>>, <<2, 1>>, <<2, 2>>}

\* repaintCanvas(canvas, ctx, config) at the viewport size of that moment
RepaintCanvas(s, config, w, h) ==
    [s EXCEPT !.repaints = s.repaints + 1,
              !.painted = <<[config |-> config, width |-> w, height |-> h]>>]

\* A variant of the cleanup that leaves the listener registered.
ListenersKept(n) == n

\* window.removeEventListener('resize', handleWindowResize)
ListenersAfterCleanup(n) == n - 1

\* The effect for the renderConfig `config`: the cleanup of the run before
\* it, a repaint, a new listener.
RunCanvasEffect(s, config, w, h) ==
    LET cleaned == IF s.effectRan
                   THEN [s EXCEPT !.listeners = ListenersAfterCleanup(s.listeners)]
                   ELSE s
        painted == RepaintCanvas(cleaned, config, w, h)
    IN  [painted EXCEPT !.listeners = painted.listeners + 1, !.effectRan = TRUE,
                        !.effectConfig = config, !.pending = FALSE]

InitCanvas ==
    /\ TimeIdle
    /\ BuildIdle
    /\ PaintIdle
    /\ renderConfig \in CanvasConfigs
    /\ \E size \in CanvasViewports : width = size[1] /\ height = size[2]
    /\ layoutConfig = ComputeGridLayout(Num(0), Num(0), Num(0))
    /\ cell = <<>>
    /\ app = Unmounted
    /\ storage = NoItem
    /\ drawer = Unmounted
    /\ timer = Unmounted
    /\ surface = [mounted |-> TRUE, pending |-> TRUE, effectRan |-> FALSE,
                  effectConfig |-> renderConfig, listeners |-> 0, repaints |-> 0,
                  painted |-> <<>>, last |-> "mount"]

\* The App renders and LifeCanvas gets the renderConfig `config`.
ConfigChange(config, sync) ==
    /\ surface.mounted /\ ~surface.pending
    /\ surface.repaints < MaxRepaints
    /\ renderConfig' = config
    /\ LET committed == [surface EXCEPT !.pending = TRUE, !.last = "render"]
       IN  surface' = IF sync THEN RunCanvasEffect(committed, config, width, height)
                      ELSE committed
    /\ UNCHANGED <<width, height, layoutConfig, cell>>
    /\ UNCHANGED <<envVars, timeVars, buildVars, paintVars, app, storage, drawer, timer>>

\* The pending effect runs.
FlushCanvasEffect ==
    /\ surface.mounted /\ surface.pending
    /\ surface.repaints < MaxRepaints
    /\ surface' = [RunCanvasEffect(surface, renderConfig, width, height)
                      EXCEPT !.last = "effect"]
    /\ UNCHANGED <<envVars, timeVars, gridVars, buildVars, paintVars>>
    /\ UNCHANGED <<app, storage, drawer, timer>>

\* The window is resized to w x h and the resize event is delivered: every
\* registered handleWindowResize repaints with the renderConfig of its effect.
WindowResize(w, h) ==
    /\ surface.repaints + surface.listeners <= MaxRepaints
    /\ width' = w
    /\ height' = h
    /\ surface' = [(IF surface.listeners = 0 THEN surface
                    ELSE [RepaintCanvas(surface, surface.effectConfig, w, h)
                             EXCEPT !.repaints = surface.repaints + surface.listeners])
                      EXCEPT !.last = "resize"]
    /\ UNCHANGED <<renderConfig, layoutConfig, cell>>
    /\ UNCHANGED <<envVars, timeVars, buildVars, paintVars, app, storage, drawer, timer>>

\* LifeCanvas unmounts: the cleanup of the effect that ran last.
UnmountCanvas ==
    /\ surface.mounted
    /\ surface' = [surface EXCEPT !.mounted = FALSE, !.pending = FALSE,
                                  !.listeners = IF surface.effectRan
                                                THEN ListenersAfterCleanup(surface.listeners)
                                                ELSE surface.listeners,
                                  !.last = "unmount"]
    /\ UNCHANGED <<envVars, timeVars, gridVars, buildVars, paintVars>>
    /\ UNCHANGED <<app, storage, drawer, timer>>

NextCanvas ==
    \/ \E config \in CanvasConfigs, sync \in BOOLEAN : ConfigChange(config, sync)
    \/ FlushCanvasEffect
    \/ \E size \in CanvasViewports : WindowResize(size[1], size[2])
    \/ UnmountCanvas

SpecCanvas == InitCanvas /\ [][NextCanvas]_vars


(***************************************************************************)
(* Properties of LifeCanvas (checked under SpecCanvas)                     *)
(***************************************************************************)
\* What a call of repaintCanvas with these arguments leaves in `painted`.
PaintedWith(config, w, h) == <<[config |-> config, width |-> w, height |-> h]>>

\* A step in which the effect ran, and one in which a resize event arrived.
CanvasEffectRan ==
    \/ surface'.last = "effect"
    \/ surface'.last = "render" /\ ~surface'.pending
ResizeArrived == surface'.last = "resize"

\* C28 as stated: at most one resize listener; every resize event that
\* arrives while LifeCanvas is mounted makes exactly one repaint, with the
\* renderConfig of the last render and the new viewport size; every run of
\* the effect for a new renderConfig makes one repaint; nothing repaints
\* after the unmount.
Cex_C28_EveryResizeRepaintsWithLatestConfig ==
    /\ [](surface.listeners <= 1)
    /\ [][/\ (ResizeArrived /\ surface.mounted) =>
                /\ surface'.repaints = surface.repaints + 1
                /\ surface'.painted = PaintedWith(renderConfig, width', height')
          /\ CanvasEffectRan =>
                /\ surface'.repaints = surface.repaints + 1
                /\ surface'.painted = PaintedWith(renderConfig', width, height)
          /\ ~surface.mounted => surface'.repaints = surface.repaints]_vars

\* C28, amended: at most one resize listener, registered exactly from the
\* first run of the effect to the unmount; a resize event that arrives while
\* it is registered makes exactly one repaint, with the new viewport size and
\* the renderConfig of the effect that ran last (an event that arrives
\* before the first run of the effect makes none); every run of the effect
\* makes one repaint with the renderConfig of the last render; nothing else
\* repaints, and nothing after the unmount; and whenever LifeCanvas is
\* mounted with no effect pending, the last repaint used the renderConfig of
\* the last render and the present viewport size.
Thm_C28_ResizeRepaintsWithEffectConfig ==
    /\ [](/\ surface.listeners <= 1
          /\ surface.listeners = 1 <=> (surface.mounted /\ surface.effectRan)
          /\ (surface.mounted /\ ~surface.pending) =>
                surface.painted = PaintedWith(renderConfig, width, height))
    /\ [][/\ ResizeArrived =>
                IF surface.listeners = 1
                THEN /\ surface'.repaints = surface.repaints + 1
                     /\ surface'.painted =
                            PaintedWith(surface.effectConfig, width', height')
                ELSE surface'.repaints = surface.repaints
          /\ CanvasEffectRan =>
                /\ surface'.repaints = surface.repaints + 1
                /\ surface'.painted = PaintedWith(renderConfig', width, height)
          /\ ~(ResizeArrived \/ CanvasEffectRan) =>
                surface'.repaints = surface.repaints
          /\ ~surface.mounted => surface'.repaints = surface.repaints]_vars

\* A resize event arrived between a render with a new renderConfig and its
\* effect: the listener of the effect before repainted at the new size with
\* the renderConfig of that effect.
Wit_C28_ResizeBeforePendingEffect ==
    /\ surface.mounted /\ surface.pending /\ surface.last = "resize"
    /\ surface.listeners = 1
    /\ surface.effectConfig # renderConfig
    /\ surface.painted = PaintedWith(surface.effectConfig, width, height)


(***************************************************************************)
(* CountdownTimer                                                          *)
(*                                                                         *)
(* The timer reads the clock to the millisecond.  Its instant is `now`,    *)
(* the half day, together with `timer.within`, the milliseconds into that  *)
(* half day.                                                               *)
(***************************************************************************)
HalfDayMs == 43200000

\* num.toString()
RECURSIVE NatText(_)
NatText(n) ==
    IF n < 10 THEN CharAt(Digits, n + 1)
    ELSE NatText(n \div 10) \o CharAt(Digits, (n % 10) + 1)
IntText(n) == IF n < 0 THEN "-" \o NatText(0 - n) ELSE NatText(n)

\* pad(num, size = 2): num.toString().padStart(size, '0')
Pad(n, size) ==
    LET text == IntText(n)
    IN  IF Len(text) >= size THEN text ELSE Repeat("0", size - Len(text)) \o text

\* The fields of new Date() at `within` milliseconds into the half day of `date`.
MsOfDay(date, within) == TimeWithinDay(date) * HalfDayMs + within
GetHours(date, within)        == MsOfDay(date, within) \div 3600000
GetMinutes(date, within)      == (MsOfDay(date, within) \div 60000) % 60
GetSeconds(date, within)      == (MsOfDay(date, within) \div 1000) % 60
GetMilliseconds(date, within) == MsOfDay(date, within) % 1000

\* birthDate = new Date(`${dob}T00:00:00`); endDate = new Date(birthDate);
\* endDate.setFullYear(endDate.getFullYear() + expectancy)
TimerEndDate(dobText, expectancy) ==
    Bind(ParseLocalMidnight(dobText), LAMBDA birthDate :
        IF birthDate.nan THEN InvalidDate
        ELSE DateAt(MakeDay(GetFullYear(birthDate) + expectancy, GetMonth(birthDate),
                            GetDate(birthDate)) * 2 - tz))

\* new Date(endDate.getFullYear(), endDate.getMonth(), 0).getDate()
DaysInLastMonth(endDate) ==
    GetDate(DateAt(MakeDay(GetFullYear(endDate), GetMonth(endDate), 0) * 2 - tz))

\* if (x < 0) { x += size; next-- }: the field and what is taken off the next.
Borrowed(x, size) == IF x < 0 THEN x + size ELSE x
Carry(x)          == IF x < 0 THEN 1 ELSE 0

\* Lines 95-127: the differences of the fields and the borrow-down.
BorrowDown(endDate, daysInLastMonth, date, within) ==
    LET ms0     == 0 - GetMilliseconds(date, within)
        secs0   == 0 - GetSeconds(date, within) - Carry(ms0)
        mins0   == 0 - GetMinutes(date, within) - Carry(secs0)
        hours0  == 0 - GetHours(date, within) - Carry(mins0)
        days0   == GetDate(endDate) - GetDate(date) - Carry(hours0)
        months0 == GetMonth(endDate) - GetMonth(date) - Carry(days0)
        years0  == GetFullYear(endDate) - GetFullYear(date) - Carry(months0)
    IN  [years  |-> years0,
         months |-> Borrowed(months0, 12),
         days   |-> Borrowed(days0, daysInLastMonth),
         hours  |-> Borrowed(hours0, 24),
         mins   |-> Borrowed(mins0, 60),
         secs   |-> Borrowed(secs0, 60),
         ms     |-> Borrowed(ms0, 1000)]

\* The seven labels (lines 130-165); the milliseconds show as hundredths.
LabelsOf(parts) ==
    [years |-> Pad(parts.years, 2), months |-> Pad(parts.months, 2),
     days |-> Pad(parts.days, 2), hours |-> Pad(parts.hours, 2),
     mins |-> Pad(parts.mins, 2), secs |-> Pad(parts.secs, 2),
     ms |-> Pad(parts.ms \div 10, 2)]

ZeroLabels ==
    [years |-> "00", months |-> "00", days |-> "00", hours |-> "00",
     mins |-> "00", secs |-> "00", ms |-> "00"]


(***************************************************************************)
(* The frame loop of CountdownTimer (SpecTimer)                            *)
(*                                                                         *)
(* Every run of the effect of lines 63-175 makes a closure of its own:     *)
(* its endDate, its daysInLastMonth, its cache of the labels written and   *)
(* its animationFrameId.  A frame requested and not yet run or cancelled   *)
(* is a record of `timer.frames` that carries the closure it will run in.  *)
(* `timer` holds                                                           *)
(*   mounted, pending      the component is mounted; an effect is pending  *)
(*   dob, expectancy       the props of the last render                    *)
(*   effectRan, chain      the effect has run; the number of its runs      *)
(*   animationFrameId      the variable of the closure of the last run     *)
(*   frames, requested     the frames pending; frames requested so far     *)
(*   labels, parts         the text of the seven spans; the components     *)
(*                         the last tick worked out                        *)
(*   writer, last          the run whose tick wrote last; what happened    *)
(*   within                milliseconds into the half day `now`            *)
(***************************************************************************)
MaxFrames == 3   \* frames requested in one behaviour

\* Props handed to CountdownTimer: the end dates are 2001-01-31, 2001-03-01
\* and 2002-03-01.
TimerProps == {<<"2000-01-31", 1>>, <<"2000-03-01", 1>>, <<"2000-03-01", 2>>}

\* Instants of the clock: half days from 2001-01-30 to 2001-03-01 12:00,
\* and the first, second and last millisecond of each.
TimerHalfDays == {790, 792, 793, 849, 850, 851}
TimerWithins  == {0, 1, HalfDayMs - 1}

NoParts == [years |-> 0, months |-> 0, days |-> 0, hours |-> 0, mins |-> 0,
            secs |-> 0, ms |-> 0]
NoCache == [years |-> "", months |-> "", days |-> "", hours |-> "", mins |-> "",
            secs |-> "", ms |-> ""]

\* requestAnimationFrame(updateTimer) in the closure of run `chain`
Frame(id, chain, endDate, daysInLastMonth, prev) ==
    [id |-> id, chain |-> chain, endDate |-> endDate,
     daysInLastMonth |-> daysInLastMonth, prev |-> prev]

\* A variant of the cleanup that cancels nothing.
FramesKept(frames, id) == frames

\* cancelAnimationFrame(id)
CancelAnimationFrame(frames, id) == {f \in frames : f.id # id}

\* The effect for the props of the last render: the cleanup of the run
\* before it, a new closure, its first frame.
RunTimerEffect(t) ==
    LET kept    == IF t.effectRan THEN CancelAnimationFrame(t.frames, t.animationFrameId)
                   ELSE t.frames
        endDate == TimerEndDate(t.dob, t.expectancy)
        first   == Frame(t.requested + 1, t.chain + 1, endDate,
                         DaysInLastMonth(endDate), NoCache)
    IN  [t EXCEPT !.pending = FALSE, !.effectRan = TRUE, !.chain = t.chain + 1,
                  !.animationFrameId = first.id, !.requested = first.id,
                  !.frames = kept \cup {first}]

InitTimer ==
    /\ now = 790
    /\ tz = 0
    /\ dob = NotADate
    /\ sampled = TRUE
    /\ monthsLived = 0
    /\ monthProgress = Num(0)
    /\ GridIdle
    /\ BuildIdle
    /\ PaintIdle
    /\ app = Unmounted
    /\ storage = NoItem
    /\ drawer = Unmounted
    /\ surface = Unmounted
    /\ \E props \in TimerProps :
          timer = [mounted |-> TRUE, pending |-> TRUE, dob |-> props[1],
                   expectancy |-> props[2], effectRan |-> FALSE, chain |-> 0,
                   animationFrameId |-> 0, frames |-> {}, requested |-> 0,
                   labels |-> ZeroLabels, parts |-> NoParts, writer |-> 0,
                   last |-> "mount", within |-> 0]

\* Time passes.
ClockAdvance(t, w) ==
    /\ t > now \/ (t = now /\ w > timer.within)
    /\ now' = t
    /\ timer' = [timer EXCEPT !.within = w, !.last = "clock"]
    /\ UNCHANGED <<tz, timeVars, gridVars, buildVars, paintVars>>
    /\ UNCHANGED <<app, storage, drawer, surface>>

\* The App renders and CountdownTimer gets other props.
PropsChange(props, sync) ==
    /\ timer.mounted /\ ~timer.pending
    /\ props # <<timer.dob, timer.expectancy>>
    /\ timer.requested < MaxFrames
    /\ LET committed == [timer EXCEPT !.dob = props[1], !.expectancy = props[2],
                                      !.pending = TRUE, !.last = "render"]
       IN  timer' = IF sync THEN RunTimerEffect(committed) ELSE committed
    /\ UNCHANGED <<envVars, timeVars, gridVars, buildVars, paintVars>>
    /\ UNCHANGED <<app, storage, drawer, surface>>

\* The pending effect runs.
FlushTimerEffect ==
    /\ timer.mounted /\ timer.pending
    /\ timer.requested < MaxFrames
    /\ timer' = [RunTimerEffect(timer) EXCEPT !.last = "effect"]
    /\ UNCHANGED <<envVars, timeVars, gridVars, buildVars, paintVars>>
    /\ UNCHANGED <<app, storage, drawer, surface>>

\* The browser runs the frame f: updateTimer() in the closure of f.
UpdateTimer(f) ==
    /\ f \in timer.frames
    /\ LET date == DateAt(now)
       IN  IF now >= GetTime(f.endDate)
           THEN timer' = [timer EXCEPT !.frames = timer.frames \ {f},
                                       !.labels = ZeroLabels, !.parts = NoParts,
                                       !.writer = f.chain, !.last = "end"]
           ELSE /\ timer.requested < MaxFrames
                /\ LET parts  == BorrowDown(f.endDate, f.daysInLastMonth, date,
                                            timer.within)
                       padded == LabelsOf(parts)
                       cached == [padded EXCEPT !.ms = ""]
                       next   == Frame(timer.requested + 1, f.chain, f.endDate,
                                       f.daysInLastMonth, cached)
                       shown  == [k \in DOMAIN padded |->
                                     IF f.prev[k] # padded[k] THEN padded[k]
                                     ELSE timer.labels[k]]
                   IN  timer' = [timer EXCEPT
                                    !.frames = (timer.frames \ {f}) \cup {next},
                                    !.requested = next.id,
                                    !.animationFrameId =
                                        IF f.chain = timer.chain THEN next.id ELSE @,
                                    !.labels = shown, !.parts = parts,
                                    !.writer = f.chain, !.last = "tick"]
    /\ UNCHANGED <<envVars, timeVars, gridVars, buildVars, paintVars>>
    /\ UNCHANGED <<app, storage, drawer, surface>>

\* CountdownTimer unmounts: the cleanup of the effect that ran last.
UnmountTimer ==
    /\ timer.mounted
    /\ timer' = [timer EXCEPT !.mounted = FALSE, !.pending = FALSE,
                              !.frames = IF timer.effectRan
                                         THEN CancelAnimationFrame(timer.frames,
                                                                   timer.animationFrameId)
                                         ELSE timer.frames,
                              !.last = "unmount"]
    /\ UNCHANGED <<envVars, timeVars, gridVars, buildVars, paintVars>>
    /\ UNCHANGED <<app, storage, drawer, surface>>

NextTimer ==
    \/ \E t \in TimerHalfDays, w \in TimerWithins : ClockAdvance(t, w)
    \/ \E props \in TimerProps, sync \in BOOLEAN : PropsChange(props, sync)
    \/ FlushTimerEffect
    \/ \E f \in timer.frames : UpdateTimer(f)
    \/ UnmountTimer

SpecTimer == InitTimer /\ [][NextTimer]_vars


(***************************************************************************)
(* Properties of CountdownTimer (checked under SpecTimer)                  *)
(***************************************************************************)
\* A step in which updateTimer ran: below the end date, at or after it.
TickedBelowEnd == timer'.last = "tick"
TickedAtEnd    == timer'.last = "end" /\ timer'.frames # timer.frames

\* C29: a tick before the end date leaves exactly one frame pending, a new
\* one of the same run of the effect; the first tick at or after the end
\* date sets the seven labels to '00' and leaves none, and from then on no
\* frame is pending and no label changes until the effect runs again; the
\* frames pending are at most one, of the last run of the effect, and none
\* after the unmount; and only a frame of the last run of a mounted timer
\* writes the labels.
Thm_C29_OneFrameChainUntilEndOrCancel ==
    /\ [](/\ Cardinality(timer.frames) <= 1
          /\ \A f \in timer.frames : f.chain = timer.chain /\ f.id = timer.animationFrameId
          /\ ~timer.mounted => timer.frames = {})
    /\ [][/\ TickedBelowEnd =>
                \E f \in timer.frames :
                    /\ now < GetTime(f.endDate)
                    /\ Cardinality(timer'.frames) = 1
                    /\ \A g \in timer'.frames :
                          g.id = timer.requested + 1 /\ g.chain = f.chain
          /\ TickedAtEnd =>
                \E f \in timer.frames :
                    /\ now >= GetTime(f.endDate)
                    /\ timer'.labels = ZeroLabels
                    /\ timer'.frames = {}
          /\ (timer.effectRan /\ timer.frames = {} /\ timer'.chain = timer.chain) =>
                timer'.frames = {} /\ timer'.labels = timer.labels
          /\ (TickedBelowEnd \/ TickedAtEnd) =>
                timer.mounted /\ timer'.writer = timer.chain
          /\ ~(TickedBelowEnd \/ TickedAtEnd) => timer'.labels = timer.labels]_vars

\* The first run of the effect ticked, the props changed, and the frame of
\* the second run found its end date passed: labels '00', nothing pending.
Wit_C29_SecondChainRunsToItsEnd ==
    /\ timer.mounted /\ timer.chain = 2 /\ timer.requested = 3
    /\ timer.last = "end" /\ timer.writer = 2
    /\ timer.labels = ZeroLabels /\ timer.frames = {}

\* C30: the components a tick before the end date works out lie in their
\* ranges: years >= 0, months in 0..11, days >= 0, hours in 0..23, minutes
\* and seconds in 0..59, milliseconds in 0..999.
Cex_C30_BorrowDownComponentsInRange ==
    timer.last = "tick" =>
        /\ timer.parts.years >= 0
        /\ timer.parts.months \in 0..11
        /\ timer.parts.days >= 0
        /\ timer.parts.hours \in 0..23
        /\ timer.parts.mins \in 0..59
        /\ timer.parts.secs \in 0..59
        /\ timer.parts.ms \in 0..999

====
